---- MODULE Spec2Model ----
(***************************************************************************)
(* The reactivity engine: observed objects (baseHandlers), the dependency  *)
(* store and the effect abstraction (effect.ts), and computed values       *)
(* (computed.ts).  The engine is synchronous and re-entrant: a write       *)
(* triggers effects whose bodies read and write observed state again.  The *)
(* model keeps the JavaScript call stack explicitly (ctl): every action is *)
(* one call of the engine made by the code that is currently executing    *)
(* (an effect body, a trigger loop, a computed getter, or the user when    *)
(* the call stack is empty).                                               *)
(***************************************************************************)
EXTENDS Integers, Sequences, FiniteSets, TLC

(***************************************************************************)
(* Values.  Numbers are naturals; NaN and undefined are encoded below 0.   *)
(***************************************************************************)
NaN == -1
Undefined == -2
\* marker in the store for "not an own property of the target"
Absent == -3
\* the value that is the ref object (ref.ts); isRef(value)
Ref == -4
isRef(value) == value = Ref

\* the user writes the values 0..MaxVal and NaN
MaxVal == 1
\* the raw targets; "ref" is the ref object: its inner value and its dep are
\* kept under RefKey
Targets == {"obj", "parent", "ref"}
\* a well-known symbol, a member of builtInSymbols
SymbolKey == "Symbol.isConcatSpreadable"
Keys == {"a", "b", "c", SymbolKey}
RefKey == "a"
RefObject(value) == "ref"
ITERATE_KEY == "ITERATE_KEY"
DepKeys == Keys \cup {ITERATE_KEY, "length"}

PlainEffects == {"e1", "e2", "e3"}
Computeds == {"c1", "c2"}
Runner(c) == IF c = "c1" THEN "r1" ELSE "r2"
ComputedOf(e) == IF e = "r1" THEN "c1" ELSE "c2"
Runners == {Runner(c) : c \in Computeds}
Effects == PlainEffects \cup Runners
\* the onStop callbacks
Callbacks == {"h1", "h2", "h3"}
\* a call deeper than this fails (RangeError: Maximum call stack size exceeded)
MaxDepth == 8

(***************************************************************************)
(* Effect bodies are straight-line programs over the engine's public       *)
(* surface.  acc is the value of the last expression the body evaluated.   *)
(***************************************************************************)
Ins(op, k, v, e) == [op |-> op, t |-> "obj", k |-> k, v |-> v, e |-> e]
Get(k) == Ins("get", k, 0, "-")
Has(k) == Ins("has", k, 0, "-")
OwnKeys == Ins("ownKeys", "-", 0, "-")
\* obj[k] = v
SetTo(k, v) == Ins("set", k, v, "-")
\* obj[k] = acc
SetAcc(k) == Ins("setAcc", k, 0, "-")
\* obj[k] = acc + 1
SetInc(k) == Ins("setInc", k, 0, "-")
Delete(k) == Ins("delete", k, 0, "-")
\* e()
Call(e) == Ins("call", "-", 0, e)
\* stop(e)
Stop(e) == Ins("stop", "-", 0, e)
\* c.value
Value(c) == Ins("value", "-", 0, c)
\* if (!acc) skip the next n instructions
Unless(n) == Ins("unless", "-", n, "-")
\* the same instruction on the target t
On(t, ins) == [ins EXCEPT !.t = t]
\* toRaw(obj)[k] = v
RawSet(k, v) == Ins("rawSet", k, v, "-")
\* readonlyProxy[k] = v, delete readonlyProxy[k]
ReadonlySet(k, v) == Ins("readonlySet", k, v, "-")
ReadonlyDelete(k) == Ins("readonlyDelete", k, 0, "-")
\* pauseTracking(), resumeTracking()
PauseTracking == Ins("pauseTracking", "-", 0, "-")
ResumeTracking == Ins("resumeTracking", "-", 0, "-")
\* throw new Error()
Throw == Ins("throw", "-", 0, "-")
\* try { e() } catch {}
TryCall(e) == Ins("tryCall", "-", 0, e)

Scenarios ==
  {"basic", "loop", "self", "branch", "nested", "stop", "computed", "impure",
   "throw", "onstop", "array", "readonly",
   "proto", "scheduler", "lazy", "pause", "chain", "pass", "ref", "symbol"}

\* the body of effect e (for a runner: the getter of its computed)
Body(s, e) ==
  CASE s = "basic" /\ e = "e1" -> <<Get("a")>>
    [] s = "basic" /\ e = "e2" -> <<Has("a")>>
    [] s = "basic" /\ e = "e3" -> <<OwnKeys, Get("b")>>
    [] s = "loop" /\ e = "e1" -> <<Get("b"), SetAcc("a")>>
    [] s = "loop" /\ e = "e2" -> <<Get("a"), SetAcc("b")>>
    [] s = "loop" /\ e = "e3" -> <<Get("a"), Get("b")>>
    [] s = "self" /\ e = "e1" -> <<Get("a"), SetInc("a")>>
    [] s = "self" /\ e = "e2" -> <<Get("a")>>
    [] s = "branch" /\ e = "e1" -> <<Get("b"), Unless(1), Get("a")>>
    [] s = "nested" /\ e = "e1" -> <<Get("a")>>
    [] s = "nested" /\ e = "e2" -> <<Get("b"), Call("e1"), Get("c")>>
    [] s = "stop" /\ e = "e1" -> <<Get("a")>>
    [] s = "stop" /\ e = "e2" -> <<Get("a"), Unless(1), Stop("e1")>>
    [] s = "stop" /\ e = "e3" -> <<Stop("e3"), Get("a"), SetInc("a")>>
    [] s = "computed" /\ e = "r1" -> <<Get("a")>>
    [] s = "computed" /\ e = "e1" -> <<Value("c1")>>
    [] s = "computed" /\ e = "e2" -> <<Get("a")>>
    [] s = "impure" /\ e = "r1" -> <<Get("a"), SetTo("a", 1)>>
    [] s = "impure" /\ e = "e1" -> <<Value("c1")>>
    [] s = "throw" /\ e = "e1" -> <<Get("a"), Unless(1), Throw>>
    [] s = "throw" /\ e = "e2" -> <<TryCall("e1"), Get("b")>>
    [] s = "throw" /\ e = "e3" -> <<Get("a")>>
    [] s = "array" /\ e = "e1" -> <<Get("length")>>
    [] s = "array" /\ e = "e2" -> <<OwnKeys>>
    [] s = "proto" /\ e = "e1" -> <<Get("a")>>
    [] s = "proto" /\ e = "e2" -> <<On("parent", Get("a"))>>
    [] s = "scheduler" /\ e = "e1" -> <<Get("a")>>
    [] s = "scheduler" /\ e = "e2" -> <<Get("a")>>
    [] s = "lazy" /\ e = "e1" -> <<Get("a")>>
    [] s = "lazy" /\ e = "e2" -> <<Get("a")>>
    [] s = "pause" /\ e = "e1" -> <<PauseTracking, Get("a"), ResumeTracking, Get("b")>>
    [] s = "pause" /\ e = "e2" -> <<Get("a")>>
    [] s = "chain" /\ e = "r1" -> <<Get("b"), Unless(1), Get("a")>>
    [] s = "chain" /\ e = "r2" -> <<Value("c1")>>
    [] s = "chain" /\ e = "e1" -> <<Value("c2")>>
    [] s = "chain" /\ e = "e2" -> <<Value("c2"), Value("c1")>>
    [] s = "pass" /\ e = "e1" -> <<Get("b"), Unless(1), Has("a")>>
    [] s = "pass" /\ e = "e2" -> <<Get("a"), SetAcc("b")>>
    [] s = "ref" /\ e = "e1" -> <<Get("a")>>
    [] s = "ref" /\ e = "e2" -> <<Has("a"), Get("b")>>
    [] s = "symbol" /\ e = "e1" -> <<Get(SymbolKey)>>
    [] s = "symbol" /\ e = "e2" -> <<Has(SymbolKey)>>
    [] s = "symbol" /\ e = "e3" -> <<OwnKeys>>
    [] s = "readonly" /\ e = "e1" -> <<Get("a")>>
    [] s = "readonly" /\ e = "e2" -> <<OwnKeys>>
    [] s = "onstop" /\ e = "e1" -> <<Get("a")>>
    [] s = "onstop" /\ e = "e2" -> <<Get("a")>>
    [] s = "onstop" /\ e = "h2" -> <<Stop("e2")>>
    [] s = "onstop" /\ e = "e3" -> <<Get("a"), Unless(1), Stop("e3")>>
    [] OTHER -> <<>>

\* the effects and computed values the scenario creates
ScnEffects(s) == {e \in PlainEffects : Body(s, e) # <<>>}
ScnComputeds(s) == {c \in Computeds : Body(s, Runner(c)) # <<>>}
\* the keys the scenario's user code touches
ScnKeys(s) ==
  CASE s \in {"basic", "loop", "branch", "throw", "array", "pause", "chain", "pass",
               "ref"} ->
         {"a", "b"}
    [] s = "symbol" -> {"a", SymbolKey}
    [] s = "nested" -> {"a", "b", "c"}
    [] OTHER -> {"a"}
\* the own properties the targets start with
InitStore(s, t, k) ==
  CASE s = "proto" /\ t = "obj" -> Absent
    [] s = "proto" /\ t = "parent" -> IF k = "a" THEN 0 ELSE Absent
    [] s = "ref" /\ t = "obj" -> IF k = "a" THEN Ref ELSE IF k = "b" THEN 0 ELSE Absent
    [] s = "ref" /\ t = "ref" -> IF k = RefKey THEN 0 ELSE Absent
    [] s = "symbol" /\ t = "obj" -> IF k = "a" THEN 0 ELSE Absent
    [] s \notin {"proto", "ref", "symbol"} /\ t = "obj" ->
         IF k \in ScnKeys(s) THEN 0 ELSE Absent
    [] OTHER -> Absent
\* the values the scenario's user code writes
ScnVals(s) ==
  CASE s \in {"basic", "computed"} -> (0..MaxVal) \cup {NaN}
    [] s = "ref" -> (0..MaxVal) \cup {Ref}
    [] OTHER -> 0..MaxVal

\* options passed to effect(): computed() passes lazy, computed and a scheduler
Lazy(s, e) ==
  e \in Runners \/ (s = "lazy" /\ e = "e1") \/ (s = "stop" /\ e = "e3")
IsComputed(s, e) == e \in Runners
\* "none": no scheduler; "dirty": the scheduler of computed(); "keep": a
\* scheduler that keeps the runner it is given, for the user to call
Scheduler(s, e) ==
  IF e \in Runners
  THEN "dirty"
  ELSE IF (s = "scheduler" /\ e = "e1") \/ (s = "chain" /\ e = "e1")
  THEN "keep"
  ELSE "none"
\* options.onStop: the callback, or "none"
OnStop(s, e) ==
  CASE s = "onstop" /\ e = "e1" -> "h1"
    [] s = "onstop" /\ e = "e2" -> "h2"
    [] s = "onstop" /\ e = "e3" -> "h3"
    [] OTHER -> "none"


(***************************************************************************)
(* State.                                                                  *)
(***************************************************************************)
VARIABLES
  scn,        \* the scenario: which bodies the effects have (never changes)
  store,      \* the raw targets: store[t][k] is the own property k of t, or Absent
  targetMap,  \* effect.ts targetMap: per target the depsMap, a Map key -> dep (a Set)
  effects,    \* the ReactiveEffect objects: created, active, deps
  activeReactiveEffectStack,
  shouldTrack,
  computeds,  \* the closures of computed(): created, dirty, value
  ctl,        \* the call stack of the engine: frames of bodies, trigger loops, getters
  ret,        \* the value the last finished call returned
  LOCKED,     \* lock.ts: writes through readonly proxies are refused
  thrown,     \* an exception is propagating up the call stack, or has reached the user
  op,         \* the user operation in progress or last finished (for the properties)
  scheduled,  \* the arguments of the calls of "keep" schedulers since that
              \* operation started
  runs,       \* runs[e]: executions of e's body since that operation started
  onStops,    \* onStops[e]: was e.onStop called not at all, once or more often
              \* ("no", "once", "again")
  reads,      \* reads[e]: the locations the body of e read in its most recent
              \* execution, each with the value of shouldTrack at the read
              \* (FALSE also for a read get() calls track() for in no case: of
              \* a built-in symbol key, and of a slot that holds a ref)
  evals,      \* evals[c]: were there no, one or more executions of c's getter
              \* since the raw state last changed ("no", "once", "again")
  cref,       \* a ComputedRefImpl, the refs its getter reads and the effects
              \* that read it (the class-based computed at the top of effect.ts)
  vif         \* the children of a template node under the v-if transform

\* the state of the engine
engine ==
  <<scn, store, targetMap, effects, activeReactiveEffectStack, shouldTrack,
    computeds, ctl, ret, LOCKED, thrown, op, scheduled, runs, onStops, reads,
    evals>>
vars == <<engine, cref, vif>>

\* the state as one record, so that the engine's functions compose
Cur ==
  [store |-> store, targetMap |-> targetMap, effects |-> effects,
   stack |-> activeReactiveEffectStack, shouldTrack |-> shouldTrack,
   computeds |-> computeds, ctl |-> ctl,
   ret |-> ret, locked |-> LOCKED, thrown |-> thrown, scheduled |-> scheduled, runs |-> runs, onStops |-> onStops,
   reads |-> reads, evals |-> evals]

Becomes(m) ==
  /\ store' = m.store
  /\ targetMap' = m.targetMap
  /\ effects' = m.effects
  /\ activeReactiveEffectStack' = m.stack
  /\ shouldTrack' = m.shouldTrack
  /\ computeds' = m.computeds
  /\ ctl' = m.ctl
  /\ ret' = m.ret
  /\ LOCKED' = m.locked
  /\ thrown' = m.thrown
  /\ scheduled' = m.scheduled
  /\ runs' = m.runs
  /\ onStops' = m.onStops
  /\ reads' = m.reads
  /\ evals' = IF m.store # store THEN [c \in Computeds |-> "no"] ELSE m.evals
  /\ scn' = scn
  /\ UNCHANGED <<cref, vif>>

Range(seq) == {seq[i] : i \in 1..Len(seq)}
Top(seq) == seq[Len(seq)]
Pop(seq) == SubSeq(seq, 1, Len(seq) - 1)
Without(seq, x) == SelectSeq(seq, LAMBDA y : y # x)
AddUnique(seq, x) == IF x \in Range(seq) THEN seq ELSE Append(seq, x)

(***************************************************************************)
(* Frames of the call stack.                                               *)
(*   body: the body of effect eff is executing, pc is its next instruction;*)
(*         tracked says run() pushed eff on activeReactiveEffectStack      *)
(*   trig: the two forEach loops at the end of trigger(); queue holds the  *)
(*         runners still to be scheduled, done the ones already scheduled  *)
(*   value: the getter of computed c waits for runner() to return          *)
(***************************************************************************)
Frame(kind, e, tracked, queue, typ) ==
  [kind |-> kind, eff |-> e, pc |-> 1, acc |-> Undefined, tracked |-> tracked,
   queue |-> queue, done |-> <<>>, typ |-> typ]
BodyFrame(e, tracked) == Frame("body", e, tracked, <<>>, "-")
\* stop(e) waits for effect.onStop() to return
StopFrame(e) == Frame("stop", e, FALSE, <<>>, "-")
TrigFrame(queue, typ) == Frame("trig", "-", FALSE, queue, typ)
ValueFrame(c) == Frame("value", c, FALSE, <<>>, "-")

Push(m, f) == [m EXCEPT !.ctl = Append(@, f)]

\* hand a call's result to its caller: an effect body keeps it in acc
Return(m, v) ==
  IF m.ctl # <<>> /\ Top(m.ctl).kind = "body"
  THEN [m EXCEPT !.ctl[Len(m.ctl)].acc = v, !.ret = v]
  ELSE [m EXCEPT !.ret = v]

\* the effect in whose execution the code on top of the call stack runs: the
\* innermost call of run() that is in progress for an active effect, or
\* "none".  The body of a stopped effect runs as part of its caller
RECURSIVE Reader(_)
Reader(stack) ==
  IF stack = <<>>
  THEN "none"
  ELSE IF Top(stack).kind = "body" /\ Top(stack).tracked
  THEN Top(stack).eff
  ELSE Reader(Pop(stack))

\* the code on top of the call stack reads the locations locs: they are read
\* in the execution of the effect whose body it is and in the one of Reader
Read(m, locs) ==
  LET own == IF m.ctl # <<>> /\ Top(m.ctl).kind = "body" /\ Top(m.ctl).eff \in Effects
             THEN {Top(m.ctl).eff}
             ELSE {}
      readers == own \cup ({Reader(m.ctl)} \ {"none"})
  IN  [m EXCEPT !.reads = [e \in Effects |-> IF e \in readers THEN @[e] \cup locs ELSE @[e]]]

(***************************************************************************)
(* effect.ts                                                               *)
(***************************************************************************)
\* a mutant of cleanup: a dep that became empty is removed from its depsMap
cleanup_pruning(m, e) ==
  LET deps == Range(m.effects[e].deps)
      left(t, k) == IF <<t, k>> \in deps
                    THEN Without(m.targetMap[t].dep[k], e)
                    ELSE m.targetMap[t].dep[k]
  IN  [m EXCEPT
         !.targetMap =
           [t \in Targets |->
              [m.targetMap[t] EXCEPT
                 !.dep = [k \in DepKeys |-> left(t, k)],
                 !.keys = SelectSeq(@, LAMBDA k : left(t, k) # <<>>)]],
         !.effects[e].deps = <<>>]

\* a mutant of cleanup: effect.deps is emptied, the deps keep the effect
cleanup_depsOnly(m, e) == [m EXCEPT !.effects[e].deps = <<>>]

\* cleanup(effect): delete the effect from every dep of effect.deps, empty deps
cleanup(m, e) ==
  LET deps == Range(m.effects[e].deps)
  IN  [m EXCEPT
         !.targetMap =
           [t \in Targets |->
              [m.targetMap[t] EXCEPT
                 !.dep = [k \in DepKeys |->
                            IF <<t, k>> \in deps
                            THEN Without(m.targetMap[t].dep[k], e)
                            ELSE m.targetMap[t].dep[k]]]],
         !.effects[e].deps = <<>>]

\* the call of fn(...args) inside run(): a new frame executes the body
CallBody(m, e, tracked) ==
  IF Len(m.ctl) >= MaxDepth
  THEN [m EXCEPT !.thrown = TRUE, !.stack = IF tracked THEN Pop(@) ELSE @,
                 !.reads = IF e \in Effects THEN [@ EXCEPT ![e] = {}] ELSE @]
  ELSE
  [Push(m, BodyFrame(e, tracked)) EXCEPT
     !.runs[e] = @ + 1,
     !.reads = IF e \in Effects THEN [@ EXCEPT ![e] = {}] ELSE @,
     !.evals = IF e \in Runners
               THEN [@ EXCEPT ![ComputedOf(e)] = IF @ = "no" THEN "once" ELSE "again"]
               ELSE @]

\* a mutant of runExit: the effect stack is not popped
runExit_noPop(m, f, threw) == [m EXCEPT !.ctl = Pop(@)]

\* a mutant of runExit: the pop is skipped when the body threw
runExit_noFinally(m, f, threw) ==
  [m EXCEPT !.ctl = Pop(@),
            !.stack = IF f.tracked /\ ~threw THEN Pop(@) ELSE @]

\* run(effect, fn, args), from the end of fn: if run() pushed the effect, the
\* finally block pops it, whether fn returned or threw
runExit(m, f, threw) ==
  [m EXCEPT !.ctl = Pop(@),
            !.stack = IF f.tracked THEN Pop(@) ELSE @]

\* a mutant of run: the effect keeps its old subscriptions
run_noCleanup(m, e) ==
  IF ~m.effects[e].active
  THEN CallBody(m, e, FALSE)
  ELSE IF e \notin Range(m.stack)
  THEN CallBody([m EXCEPT !.stack = Append(@, e)], e, TRUE)
  ELSE [m EXCEPT !.ret = Undefined]

\* a mutant of run: no test whether the effect is on the stack
run_noGuard(m, e) ==
  IF ~m.effects[e].active
  THEN CallBody(m, e, FALSE)
  ELSE CallBody([cleanup(m, e) EXCEPT !.stack = Append(@, e)], e, TRUE)

\* run(effect, fn, args), up to the call of fn
run(m, e) ==
  IF ~m.effects[e].active
  THEN CallBody(m, e, FALSE)
  ELSE IF e \notin Range(m.stack)
  THEN CallBody([cleanup(m, e) EXCEPT !.stack = Append(@, e)], e, TRUE)
  ELSE [m EXCEPT !.ret = Undefined]

\* stop(effect), up to the call of effect.onStop()
stop(m, e) ==
  IF m.effects[e].active
  THEN IF OnStop(scn, e) # "none"
       THEN CallBody([Push(cleanup(m, e), StopFrame(e)) EXCEPT
                        !.onStops[e] = IF @ = "no" THEN "once" ELSE "again"],
                     OnStop(scn, e), FALSE)
       ELSE [cleanup(m, e) EXCEPT !.effects[e].active = FALSE]
  ELSE m

\* stop(effect), from the return of effect.onStop(): effect.active = false
stopAfterOnStop(m, e) ==
  [m EXCEPT !.ctl = Pop(@), !.effects[e].active = FALSE]

\* a mutant of track: the effect at the bottom of the stack is subscribed
track_bottom(m, t, type, k) ==
  IF ~m.shouldTrack \/ m.stack = <<>>
  THEN m
  ELSE
    LET effect == Head(m.stack)
        key == IF type = "iterate" THEN ITERATE_KEY ELSE k
        depsMap == m.targetMap[t]
        dep == depsMap.dep[key]
        made == [has |-> TRUE, keys |-> AddUnique(depsMap.keys, key),
                 dep |-> depsMap.dep]
    IN  IF effect \in Range(dep)
        THEN [m EXCEPT !.targetMap[t] = made]
        ELSE [m EXCEPT
                !.targetMap[t] = [made EXCEPT !.dep[key] = Append(dep, effect)],
                !.effects[effect].deps = Append(@, <<t, key>>)]

\* a mutant of track: the dep gains the effect, effect.deps does not gain
\* the dep
track_noBackReference(m, t, type, k) ==
  IF ~m.shouldTrack \/ m.stack = <<>>
  THEN m
  ELSE
    LET effect == Top(m.stack)
        key == IF type = "iterate" THEN ITERATE_KEY ELSE k
        depsMap == m.targetMap[t]
        dep == depsMap.dep[key]
        made == [has |-> TRUE, keys |-> AddUnique(depsMap.keys, key),
                 dep |-> depsMap.dep]
    IN  IF effect \in Range(dep)
        THEN [m EXCEPT !.targetMap[t] = made]
        ELSE [m EXCEPT
                !.targetMap[t] = [made EXCEPT !.dep[key] = Append(dep, effect)]]

\* a mutant of track: shouldTrack is not looked at
track_whilePaused(m, t, type, k) ==
  IF m.stack = <<>>
  THEN m
  ELSE
    LET effect == Top(m.stack)
        key == IF type = "iterate" THEN ITERATE_KEY ELSE k
        depsMap == m.targetMap[t]
        dep == depsMap.dep[key]
        made == [has |-> TRUE, keys |-> AddUnique(depsMap.keys, key),
                 dep |-> depsMap.dep]
    IN  IF effect \in Range(dep)
        THEN [m EXCEPT !.targetMap[t] = made]
        ELSE [m EXCEPT
                !.targetMap[t] = [made EXCEPT !.dep[key] = Append(dep, effect)],
                !.effects[effect].deps = Append(@, <<t, key>>)]

\* track(target, type, key)
track(m, t, type, k) ==
  IF ~m.shouldTrack \/ m.stack = <<>>
  THEN m
  ELSE
    LET effect == Top(m.stack)
        key == IF type = "iterate" THEN ITERATE_KEY ELSE k
        depsMap == m.targetMap[t]
        dep == depsMap.dep[key]
        made == [has |-> TRUE, keys |-> AddUnique(depsMap.keys, key),
                 dep |-> depsMap.dep]
    IN  IF effect \in Range(dep)
        THEN [m EXCEPT !.targetMap[t] = made]
        ELSE [m EXCEPT
                !.targetMap[t] = [made EXCEPT !.dep[key] = Append(dep, effect)],
                !.effects[effect].deps = Append(@, <<t, key>>)]

\* pauseTracking(), resumeTracking()
pauseTracking(m) == [m EXCEPT !.shouldTrack = FALSE]
resumeTracking(m) == [m EXCEPT !.shouldTrack = TRUE]

\* a mutant of SetAdd: the runners are kept in a list
SetAdd_list(set, x) == Append(set, x)

\* Set.prototype.add on the Sets effects and computedRunners (insertion order)
SetAdd(set, x) == IF x \in Range(set) THEN set ELSE Append(set, x)

\* addRunners(effects, computedRunners, effectsToAdd); r holds the two Sets
RECURSIVE addRunners(_, _)
addRunners(r, effectsToAdd) ==
  IF effectsToAdd = <<>>
  THEN r
  ELSE
    LET effect == Head(effectsToAdd)
        r1 == IF IsComputed(scn, effect)
              THEN [r EXCEPT !.computedRunners = SetAdd(@, effect)]
              ELSE [r EXCEPT !.effects = SetAdd(@, effect)]
    IN  addRunners(r1, Tail(effectsToAdd))

\* depsMap.forEach(dep => addRunners(effects, computedRunners, dep))
RECURSIVE addAllRunners(_, _, _)
addAllRunners(r, depsMap, keys) ==
  IF keys = <<>>
  THEN r
  ELSE addAllRunners(addRunners(r, depsMap.dep[Head(keys)]), depsMap, Tail(keys))

\* Object.setPrototypeOf(obj, parent): the prototype of the raw target, a
\* reactive proxy, or "none"
Proto(t) == IF scn = "proto" /\ t = "obj" THEN "parent" ELSE "none"

\* Array.isArray(target): in the scenario "array" the target is an array, its
\* keys are indices
IsArray(t) == scn = "array"

\* a mutant of Runners4: the dep of the iteration key is consulted first
Runners4_shapeFirst(depsMap, t, type, k) ==
  LET r0 == [effects |-> <<>>, computedRunners |-> <<>>]
  IN  IF type = "clear"
      THEN addAllRunners(r0, depsMap, depsMap.keys)
      ELSE
        LET iterationKey == IF IsArray(t) THEN "length" ELSE ITERATE_KEY
            r1 == IF type \in {"add", "delete"}
                  THEN addRunners(r0, depsMap.dep[iterationKey])
                  ELSE r0
        IN  IF k # "-" THEN addRunners(r1, depsMap.dep[k]) ELSE r1

\* a mutant of Runners4: the iteration key is left out
Runners4_keyOnly(depsMap, t, type, k) ==
  LET r0 == [effects |-> <<>>, computedRunners |-> <<>>]
  IN  IF type = "clear"
      THEN addAllRunners(r0, depsMap, depsMap.keys)
      ELSE IF k # "-" THEN addRunners(r0, depsMap.dep[k]) ELSE r0

\* the runners trigger() collects for a mutation of kind type on key k of t
\* (k = "-": no key given)
Runners4(depsMap, t, type, k) ==
  LET r0 == [effects |-> <<>>, computedRunners |-> <<>>]
  IN  IF type = "clear"
      THEN addAllRunners(r0, depsMap, depsMap.keys)
      ELSE
        LET r1 == IF k # "-" THEN addRunners(r0, depsMap.dep[k]) ELSE r0
            iterationKey == IF IsArray(t) THEN "length" ELSE ITERATE_KEY
        IN  IF type \in {"add", "delete"}
            THEN addRunners(r1, depsMap.dep[iterationKey])
            ELSE r1

\* a mutant of RunOrder: the plain effects run first
RunOrder_plainFirst(computedRunners, effs) == effs \o computedRunners

\* computedRunners.forEach(run); effects.forEach(run): the order of the calls
RunOrder(computedRunners, effs) == computedRunners \o effs

\* a mutant of trigger: no test whether the target was ever tracked
trigger_untracked(m, t, type, k) ==
  LET r == Runners4(m.targetMap[t], t, type, k)
  IN  Push(m, TrigFrame(RunOrder(r.computedRunners, r.effects), type))

\* trigger(target, type, key), up to the first call of scheduleRun
trigger(m, t, type, k) ==
  LET depsMap == m.targetMap[t]
  IN  IF ~depsMap.has
      THEN m
      ELSE
        LET r == Runners4(depsMap, t, type, k)
        IN  Push(m, TrigFrame(RunOrder(r.computedRunners, r.effects), type))

\* a mutant of computedScheduler: the scheduler does nothing
computedScheduler_noop(m, e) == m

\* the scheduler computed() passes: () => { dirty = true }
computedScheduler(m, e) == [m EXCEPT !.computeds[ComputedOf(e)].dirty = TRUE]

\* the scheduler of the test: _runner => { runner = _runner }
keepScheduler(m, e) == [m EXCEPT !.scheduled = Append(@, e)]

\* a mutant of scheduleRun: the loop of trigger() walks the live dep, where an
\* effect that deletes and adds itself again comes up once more
scheduleRun_liveDep(m, e) ==
  LET m1 == [m EXCEPT !.ctl[Len(m.ctl)].queue = Append(@, e)]
  IN  IF Scheduler(scn, e) = "dirty"
      THEN computedScheduler(m1, e)
      ELSE IF Scheduler(scn, e) = "keep"
      THEN keepScheduler(m1, e)
      ELSE run(m1, e)

\* a mutant of scheduleRun: the effect is run whatever its scheduler
scheduleRun_direct(m, e) == run(m, e)

\* scheduleRun(effect, ...)
scheduleRun(m, e) ==
  IF Scheduler(scn, e) = "dirty"
  THEN computedScheduler(m, e)
  ELSE IF Scheduler(scn, e) = "keep"
  THEN keepScheduler(m, e)
  ELSE run(m, e)

\* a mutant of effect: the first run is made whatever options.lazy
effect_eager(m, e) ==
  run([m EXCEPT !.effects[e] = [created |-> TRUE, active |-> TRUE, deps |-> <<>>]],
      e)

\* effect(fn, options): createReactiveEffect, then the first run unless lazy
effect(m, e) ==
  LET m1 == [m EXCEPT
               !.effects[e] = [created |-> TRUE, active |-> TRUE, deps |-> <<>>]]
  IN  IF ~Lazy(scn, e) THEN run(m1, e) ELSE m1


(***************************************************************************)
(* baseHandlers.ts: the traps of the mutable proxy.                        *)
(***************************************************************************)
\* hasOwn(target, key); an array has the own property length
hasOwn(m, t, k) == IF k = "length" THEN IsArray(t) ELSE m.store[t][k] # Absent
\* Reflect.get(target, key, receiver) / target[key]
RECURSIVE ReflectGet(_, _, _)
ReflectGet(m, t, k) ==
  IF k = "length"
  THEN Cardinality({x \in Keys : m.store[t][x] # Absent})
  ELSE IF hasOwn(m, t, k)
  THEN m.store[t][k]
  ELSE IF Proto(t) # "none" THEN ReflectGet(m, Proto(t), k) ELSE Undefined
\* isSymbol(key), and the set builtInSymbols
isSymbol(k) == k = SymbolKey
builtInSymbols == {SymbolKey}
\* ref.ts, the accessors of a ref: get value() tracks the ref and returns its
\* inner value, set value() stores the new inner value and triggers the ref
refGet(m, r) ==
  Return(track(Read(m, {<<r, RefKey, m.shouldTrack>>}), r, "get", RefKey),
         m.store[r][RefKey])
refSet(m, r, newVal) == trigger([m EXCEPT !.store[r][RefKey] = newVal], r, "set", RefKey)

\* a mutant of get: no test for built-in symbols
RECURSIVE get_trackSymbols(_, _, _)
get_trackSymbols(m, t, k) ==
  LET m1 == IF k \in Keys /\ ~hasOwn(m, t, k) /\ Proto(t) # "none"
            THEN get_trackSymbols(m, Proto(t), k)
            ELSE m
      res == ReflectGet(m, t, k)
  IN  IF isRef(res)
      THEN refGet(Read(m1, {<<t, k, FALSE>>}), RefObject(res))
      ELSE Return(track(Read(m1, {<<t, k, m.shouldTrack>>}), t, "get", k), res)

\* value !== oldValue
StrictNotEqual(value, oldValue) == value # oldValue \/ value = NaN

\* get(target, key, receiver) of createGetter(false); for a key found only on
\* the prototype chain Reflect.get goes through the get trap of the prototype,
\* which tracks first
RECURSIVE get(_, _, _)
get(m, t, k) ==
  LET m1 == IF k \in Keys /\ ~hasOwn(m, t, k) /\ Proto(t) # "none"
            THEN get(m, Proto(t), k)
            ELSE m
      res == ReflectGet(m, t, k)
  IN  IF isSymbol(k) /\ k \in builtInSymbols
      THEN Return(Read(m1, {<<t, k, FALSE>>}), res)
      ELSE IF isRef(res)
      THEN refGet(Read(m1, {<<t, k, FALSE>>}), RefObject(res))
      ELSE Return(track(Read(m1, {<<t, k, m.shouldTrack>>}), t, "get", k), res)

\* a mutant of set: a ref in the slot is replaced like any other value
RECURSIVE set_overRef(_, _, _, _, _)
set_overRef(m, t, k, value, receiver) ==
  LET hadKey == hasOwn(m, t, k)
      oldValue == ReflectGet(m, t, k)
      m1 == IF hadKey \/ Proto(t) = "none"
            THEN [m EXCEPT !.store[receiver][k] = value]
            ELSE set_overRef(m, Proto(t), k, value, receiver)
  IN  IF t # receiver
      THEN m1
      ELSE IF ~hadKey
      THEN trigger(m1, t, "add", k)
      ELSE IF StrictNotEqual(value, oldValue)
      THEN trigger(m1, t, "set", k)
      ELSE m1

\* a mutant of set: no test of the receiver
RECURSIVE set_anyReceiver(_, _, _, _, _)
set_anyReceiver(m, t, k, value, receiver) ==
  LET hadKey == hasOwn(m, t, k)
      oldValue == ReflectGet(m, t, k)
      m1 == IF hadKey \/ Proto(t) = "none"
            THEN [m EXCEPT !.store[receiver][k] = value]
            ELSE set_anyReceiver(m, Proto(t), k, value, receiver)
  IN  IF ~hadKey
      THEN trigger(m1, t, "add", k)
      ELSE IF StrictNotEqual(value, oldValue)
      THEN trigger(m1, t, "set", k)
      ELSE m1

\* set(target, key, value, receiver); receiver is the raw object of the
\* receiver.  Reflect.set stores the value on the receiver if the target has
\* the key or has no prototype, and otherwise goes through the set trap of the
\* prototype
RECURSIVE set(_, _, _, _, _)
set(m, t, k, value, receiver) ==
  LET hadKey == hasOwn(m, t, k)
      oldValue == ReflectGet(m, t, k)
      m1 == IF hadKey \/ Proto(t) = "none"
            THEN [m EXCEPT !.store[receiver][k] = value]
            ELSE set(m, Proto(t), k, value, receiver)
  IN  IF isRef(oldValue) /\ ~isRef(value)
      THEN refSet(m, RefObject(oldValue), value)
      ELSE IF t # receiver
      THEN m1
      ELSE IF ~hadKey
      THEN trigger(m1, t, "add", k)
      ELSE IF StrictNotEqual(value, oldValue)
      THEN trigger(m1, t, "set", k)
      ELSE m1

\* toRaw(proxy)[k] = value: no trap of the object itself; for a key found only
\* on the prototype chain the set trap of the prototype is called
rawSet(m, t, k, value) ==
  IF hasOwn(m, t, k) \/ Proto(t) = "none"
  THEN [m EXCEPT !.store[t][k] = value]
  ELSE set(m, Proto(t), k, value, t)

\* a mutant of deleteProperty: the key is removed without a trigger
deleteProperty_silent(m, t, k) == [m EXCEPT !.store[t][k] = Absent]

\* Reflect.deleteProperty(target, key): false for a property that is not
\* configurable (the length of an array), true otherwise, also for a key that
\* is not there
ReflectDeleteProperty(t, k) == ~(IsArray(t) /\ k = "length")

\* a mutant of deleteProperty: the trigger does not depend on hadKey and result
deleteProperty_always(m, t, k) ==
  LET result == ReflectDeleteProperty(t, k)
      m1 == IF result THEN [m EXCEPT !.store[t][k] = Absent] ELSE m
  IN  trigger(m1, t, "delete", k)

\* deleteProperty(target, key)
deleteProperty(m, t, k) ==
  LET hadKey == hasOwn(m, t, k)
      result == ReflectDeleteProperty(t, k)
      m1 == IF result THEN [m EXCEPT !.store[t][k] = Absent] ELSE m
  IN  IF result /\ hadKey THEN trigger(m1, t, "delete", k) ELSE m1

\* has(target, key); true is 1, false is 0
has(m, t, k) ==
  Return(track(Read(m, {<<t, k, m.shouldTrack>>}), t, "has", k),
         IF hasOwn(m, t, k) THEN 1 ELSE 0)

\* ownKeys(target); the body only uses the number of keys
ownKeys(m, t) ==
  Return(track(Read(m, {<<t, ITERATE_KEY, m.shouldTrack>>}), t, "iterate", "-"),
         Cardinality({k \in Keys : hasOwn(m, t, k)}))

\* a mutant of readonlySet: the lock is not looked at
readonlySet_unlocked(m, t, k, value) == set(m, t, k, value, t)

\* readonlyHandlers.set; true is 1
readonlySet(m, t, k, value) ==
  IF m.locked THEN [m EXCEPT !.ret = 1] ELSE set(m, t, k, value, t)

\* readonlyHandlers.deleteProperty
readonlyDeleteProperty(m, t, k) ==
  IF m.locked THEN [m EXCEPT !.ret = 1] ELSE deleteProperty(m, t, k)

\* lock.ts: lock() and unlock()
lock(m) == [m EXCEPT !.locked = TRUE]
unlock(m) == [m EXCEPT !.locked = FALSE]

\* clear() of a collection target: empties it and triggers CLEAR
clear(m, t) ==
  trigger([m EXCEPT !.store[t] = [k \in Keys |-> Absent]], t, "clear", "-")

(***************************************************************************)
(* computed.ts                                                             *)
(***************************************************************************)
\* the loop of trackChildRun over childRunner.deps
RECURSIVE trackChildDeps(_, _, _)
trackChildDeps(m, parentRunner, deps) ==
  IF deps = <<>>
  THEN m
  ELSE
    LET d == Head(deps)
        dep == m.targetMap[d[1]].dep[d[2]]
        m1 == IF parentRunner \in Range(dep)
              THEN m
              ELSE [m EXCEPT
                      !.targetMap[d[1]].dep[d[2]] = Append(dep, parentRunner),
                      !.effects[parentRunner].deps = Append(@, d)]
    IN  trackChildDeps(m1, parentRunner, Tail(deps))

\* trackChildRun(childRunner)
trackChildRun(m, childRunner) ==
  IF m.stack = <<>>
  THEN m
  ELSE trackChildDeps(m, Top(m.stack), m.effects[childRunner].deps)

\* computed(getter): dirty = true, runner = effect(getter, {lazy, computed, scheduler})
computed(m, c) ==
  effect([m EXCEPT
            !.computeds[c] = [created |-> TRUE, dirty |-> TRUE, value |-> Undefined]],
         Runner(c))

\* get value(), after the test if (dirty): trackChildRun(runner); return value
valueTail(m, c) ==
  LET known == {<<d[1], d[2], TRUE>> : d \in Range(m.effects[Runner(c)].deps)}
  IN  Return(trackChildRun(Read(m, known), Runner(c)), m.computeds[c].value)

\* get value(), up to the return of runner()
value(m, c) ==
  IF m.computeds[c].dirty
  THEN run(Push(m, ValueFrame(c)), Runner(c))
  ELSE valueTail(m, c)

\* get value(), from the return of runner(): value = runner(); dirty = false; ...
valueAfterRunner(m, c) ==
  valueTail([m EXCEPT !.ctl = Pop(@),
                      !.computeds[c].value = m.ret,
                      !.computeds[c].dirty = FALSE], c)

(***************************************************************************)
(* The class ComputedRefImpl.  Its collaborators ReactiveEffect,           *)
(* trackRefValue and triggerRefValue are imported: an effect with a        *)
(* scheduler has the scheduler called instead of its run() when one of its *)
(* dependencies changes, run() executes the function and collects its      *)
(* dependencies, trackRefValue subscribes the active effect to the ref and *)
(* triggerRefValue notifies the ref's subscribers.  One step is one call   *)
(* of the user: a write of a ref the getter reads, a read of the computed  *)
(* value, the creation of an effect that reads it, or the run of a queued  *)
(* effect.                                                                 *)
(***************************************************************************)
\* the refs x and y, read by the getter () => x.value ? y.value : 0
Sources == {"x", "y"}
\* the effects that read the computed value: w1 = effect(() => c.value), and
\* w2 the same with a scheduler that queues the effect for a later run
Watchers == {"w1", "w2"}

\* new ComputedRefImpl(getter, setter, isReadonly), with the world around it:
\* dep are the subscribers of the computed value, deps the refs its effect is
\* subscribed to.  made: the watchers created; queue: the ones queued; the
\* other fields describe the user's last call: its kind, whether it changed a
\* ref the getter was subscribed to, its calls of triggerRefValue and of the
\* getter; notified counts the calls of triggerRefValue since the last read
ComputedRefImpl ==
  [x |-> 0, y |-> 0, dirty |-> TRUE, value |-> Undefined, deps |-> {}, dep |-> {},
   made |-> {}, queue |-> {}, last |-> "new", changed |-> FALSE, triggers |-> 0,
   getterRuns |-> 0, notified |-> 0]

getter(c) == IF c.x # 0 THEN c.y ELSE 0
getterReads(c) == IF c.x # 0 THEN {"x", "y"} ELSE {"x"}
\* this.effect.run(): the getter runs and its dependencies are collected anew
effectRun(c) ==
  [c EXCEPT !.value = getter(c), !.deps = getterReads(c), !.getterRuns = @ + 1]
\* trackRefValue(self): subscribes the active effect, if there is one
trackRefValue(c, activeEffect) ==
  IF activeEffect = "none" THEN c ELSE [c EXCEPT !.dep = @ \cup {activeEffect}]
\* get value()
getValue(c, activeEffect) ==
  LET self == [trackRefValue(c, activeEffect) EXCEPT !.notified = 0]
  IN  IF self.dirty THEN effectRun([self EXCEPT !.dirty = FALSE]) ELSE self
\* a watcher runs: its body reads c.value
watcherRun(c, w) == getValue(c, w)
\* triggerRefValue(this): a subscriber without a scheduler runs, the
\* scheduler of one that has a scheduler is called
triggerRefValue(c) ==
  LET c0 == [c EXCEPT !.triggers = @ + 1, !.notified = IF @ < 2 THEN @ + 1 ELSE @]
      c1 == IF "w1" \in c0.dep THEN watcherRun(c0, "w1") ELSE c0
  IN  IF "w2" \in c1.dep THEN [c1 EXCEPT !.queue = @ \cup {"w2"}] ELSE c1
\* a mutant of cRefScheduler: no test of _dirty
cRefScheduler_always(c) == triggerRefValue([c EXCEPT !.dirty = TRUE])
\* the scheduler the constructor gives to the effect
cRefScheduler(c) ==
  IF ~c.dirty THEN triggerRefValue([c EXCEPT !.dirty = TRUE]) ELSE c
\* s.value = v: a write that changes the ref triggers its subscribers
sourceSet(c, s, v) ==
  IF c[s] = v
  THEN c
  ELSE LET c1 == [c EXCEPT ![s] = v, !.changed = s \in c.deps]
       IN  IF s \in c.deps THEN cRefScheduler(c1) ELSE c1

\* the user makes a call of the given kind
CRefCall(kind) ==
  [cref EXCEPT !.last = kind, !.changed = FALSE, !.triggers = 0, !.getterRuns = 0]

CRefWrite ==
  /\ \E s \in Sources, v \in 0..MaxVal : cref' = sourceSet(CRefCall("write"), s, v)
  /\ UNCHANGED <<engine, vif>>
CRefRead ==
  /\ cref' = getValue(CRefCall("read"), "none")
  /\ UNCHANGED <<engine, vif>>
CRefWatch ==
  /\ \E w \in Watchers \ cref.made :
       cref' = watcherRun([CRefCall("watch") EXCEPT !.made = @ \cup {w}], w)
  /\ UNCHANGED <<engine, vif>>
CRefFlush ==
  /\ \E w \in cref.queue :
       cref' = watcherRun([CRefCall("flush") EXCEPT !.queue = @ \ {w}], w)
  /\ UNCHANGED <<engine, vif>>

(***************************************************************************)
(* compiler-core, transforms/vIf.ts: the children of one parent node are   *)
(* traversed from left to right; an element with v-if is replaced by an IF *)
(* node, an element with v-else-if or v-else is moved into the branches of *)
(* the IF node before it.  The traversal and context.removeNode are        *)
(* imported from ../transform: removing a node moves the later ones one    *)
(* place to the left, and the traversal goes on with the node that follows *)
(* the current one.  One step is the transform of one child.               *)
(***************************************************************************)
\* the longest list of siblings
MaxSiblings == 4
\* what a child of the template is: an element with v-if, v-else-if, v-else
\* or none of them, a text of white space only, a comment
Kinds == {"if", "else-if", "else", "div", "blank", "comment"}
\* the parsed child number id; an IF node has kind "IF" and keeps the ids of
\* its branches
Node(kind, id) == [kind |-> kind, id |-> id, branches |-> <<>>]
Templates ==
  UNION {[1..n -> Kinds] : n \in 1..MaxSiblings}
\* the state of the transform of the template tpl: the parent's children, the
\* index of the child to traverse next, the key index each branch was given
\* (-1: none) and the children reported by context.onError
Parsed(tpl) ==
  [children |-> [j \in 1..Len(tpl) |-> Node(tpl[j], j)],
   i |-> 1,
   keys |-> [j \in 1..Len(tpl) |-> -1],
   errors |-> {}]
\* no template is being transformed
NoTemplate == Parsed(<<>>)

\* siblings.splice(j, 1)
Splice(siblings, j) ==
  SubSeq(siblings, 1, j - 1) \o SubSeq(siblings, j + 1, Len(siblings))
\* siblings.indexOf(node)
IndexOf(siblings, id) == CHOOSE j \in 1..Len(siblings) : siblings[j].id = id

\* a mutant of keyBase: the siblings are not looked at
keyBase_zero(siblings, n) == 0
\* the loop of the codegen callback: the sum of branches.length of the IF
\* nodes among the siblings before index n
RECURSIVE keyBase(_, _)
keyBase(siblings, n) ==
  IF n <= 1
  THEN 0
  ELSE keyBase(siblings, n - 1) +
         (IF siblings[n - 1].kind = "IF" THEN Len(siblings[n - 1].branches) ELSE 0)

\* processIf for v-if: the node is replaced by an IF node with one branch,
\* and the codegen callback gives the branch its key
processRoot(v) ==
  LET node == v.children[v.i]
      ifNode == [kind |-> "IF", id |-> node.id, branches |-> <<node.id>>]
      siblings == [v.children EXCEPT ![v.i] = ifNode]
      key == keyBase(siblings, IndexOf(siblings, ifNode.id))
  IN  [v EXCEPT !.children = siblings, !.keys[node.id] = key, !.i = @ + 1]

\* the loop of processIf for v-else-if and v-else: j is the index of the
\* sibling looked at.  Comments and white space before the node are removed;
\* if the sibling found is an IF node, the node is removed and becomes its
\* last branch with the key of the codegen callback; otherwise the error is
\* reported and the node stays
RECURSIVE locate(_, _, _)
locate(v, id, j) ==
  IF j >= 1 /\ v.children[j].kind \in {"comment", "blank"}
  THEN locate([v EXCEPT !.children = Splice(@, j)], id, j - 1)
  ELSE IF j >= 1 /\ v.children[j].kind = "IF"
  THEN LET sibling == [v.children[j] EXCEPT !.branches = Append(@, id)]
           siblings == Splice([v.children EXCEPT ![j] = sibling], IndexOf(v.children, id))
           key == keyBase(siblings, IndexOf(siblings, sibling.id))
       IN  [v EXCEPT !.children = siblings,
                     !.keys[id] = key + Len(sibling.branches) - 1,
                     !.i = j + 1]
  ELSE [v EXCEPT !.errors = @ \cup {id}, !.i = IndexOf(v.children, id) + 1]
processBranch(v) == locate(v, v.children[v.i].id, v.i - 1)

\* the child to traverse next
VIfChild == vif.children[vif.i]
Traversing == vif.i <= Len(vif.children)
\* an element with v-if
VIfRoot ==
  /\ Traversing
  /\ VIfChild.kind = "if"
  /\ vif' = processRoot(vif)
  /\ UNCHANGED <<engine, cref>>
\* an element with v-else-if or v-else
VIfBranch ==
  /\ Traversing
  /\ VIfChild.kind \in {"else-if", "else"}
  /\ vif' = processBranch(vif)
  /\ UNCHANGED <<engine, cref>>
\* any other child: the transform does not apply
VIfOther ==
  /\ Traversing
  /\ VIfChild.kind \in {"div", "blank", "comment"}
  /\ vif' = [vif EXCEPT !.i = @ + 1]
  /\ UNCHANGED <<engine, cref>>

(***************************************************************************)
(* Who executes next: the body on top of the call stack, or the user.      *)
(***************************************************************************)
Quiescent == ctl = <<>>
AtBody ==
  /\ ~thrown
  /\ ctl # <<>>
  /\ Top(ctl).kind = "body"
  /\ Top(ctl).pc <= Len(Body(scn, Top(ctl).eff))

InBounds == \A t \in Targets, k \in Keys : store[t][k] <= MaxVal

\* the engine calls the user code of the scenario makes
ScnOps(s) ==
  CASE s = "chain" -> {"set", "value"}
    [] s = "pass" -> {"set"}
    [] s = "ref" -> {"set", "delete"}
    [] s = "symbol" -> {"set", "delete"}
    [] OTHER ->
         {"set", "delete", "call", "stop", "value", "clear", "rawSet",
          "pauseTracking", "resumeTracking", "readonlySet", "readonlyDelete",
          "lock", "unlock"}

\* what the user code may call between two engine calls
AnyUserIns ==
  {SetTo(k, v) : k \in ScnKeys(scn), v \in ScnVals(scn)}
    \cup {Delete(k) : k \in ScnKeys(scn)}
    \cup (IF scn = "array" THEN {Delete("length")} ELSE {})
    \cup {Call(e) : e \in {x \in PlainEffects : effects[x].created}}
    \cup {Stop(e) : e \in {x \in Effects : effects[x].created}}
    \cup {Value(c) : c \in {x \in Computeds : computeds[x].created}}
    \cup {Ins("clear", "-", 0, "-")}
    \cup (IF scn = "proto"
          THEN {RawSet(k, v) : k \in ScnKeys(scn), v \in ScnVals(scn)}
                 \cup {On("parent", SetTo(k, v)) : k \in ScnKeys(scn), v \in ScnVals(scn)}
          ELSE {})
    \cup (IF scn = "pause" THEN {PauseTracking, ResumeTracking} ELSE {})
    \cup (IF scn = "readonly"
          THEN {ReadonlySet(k, v) : k \in ScnKeys(scn), v \in ScnVals(scn)}
                 \cup {ReadonlyDelete(k) : k \in ScnKeys(scn)}
                 \cup {Ins("lock", "-", 0, "-"), Ins("unlock", "-", 0, "-")}
          ELSE {})
UserIns == {ins \in AnyUserIns : ins.op \in ScnOps(scn)}

\* the instructions that may execute in this state
Fetch ==
  IF Quiescent
  THEN IF InBounds THEN UserIns ELSE {}
  ELSE IF AtBody THEN {Body(scn, Top(ctl).eff)[Top(ctl).pc]} ELSE {}

\* the state with the instruction fetched: a body moves to its next
\* instruction, a user operation starts counting runs afresh
Fetched ==
  IF Quiescent
  THEN [Cur EXCEPT !.runs = [e \in Effects \cup Callbacks |-> 0],
                   !.thrown = FALSE,
                   !.scheduled = <<>>]
  ELSE [Cur EXCEPT !.ctl[Len(ctl)].pc = @ + 1]

\* the getter of c returns what it reads first and reads nothing else
ReturnsFirstRead(c) ==
  LET body == Body(scn, Runner(c))
  IN  /\ body # <<>>
      /\ body[1].op = "get"
      /\ \A i \in 2..Len(body) : body[i].op \notin {"get", "has", "ownKeys", "value"}
FirstRead(c) ==
  LET body == Body(scn, Runner(c))
  IN  ReflectGet(Cur, body[1].t, body[1].k)

\* what the properties remember of a user operation: the instruction, the
\* value and presence of its key and the subscribers of its location before
\* it and, for a read of a computed value, what its getter returns on the
\* state the read is made in
OpOf(ins) ==
  [ins |-> ins,
   getter |-> IF ins.op = "value" /\ ReturnsFirstRead(ins.e)
              THEN FirstRead(ins.e)
              ELSE Undefined,
   old |-> IF ins.k \in Keys THEN ReflectGet(Cur, ins.t, ins.k) ELSE Undefined,
   had |-> IF ins.k \in Keys THEN hasOwn(Cur, ins.t, ins.k) ELSE FALSE,
   subs |-> IF ins.k \in Keys THEN Range(targetMap[ins.t].dep[ins.k]) ELSE {},
   iter |-> Range(targetMap[ins.t].dep[ITERATE_KEY]),
   len |-> Range(targetMap[ins.t].dep["length"]),
   ref |-> Range(targetMap["ref"].dep[RefKey]),
   inh |-> IF ins.k \in Keys /\ Proto(ins.t) # "none"
           THEN Range(targetMap[Proto(ins.t)].dep[ins.k])
           ELSE {},
   active |-> {e \in Effects : effects[e].active}]

Do(ins, m) ==
  /\ Becomes(m)
  /\ op' = IF Quiescent THEN OpOf(ins) ELSE op

\* the value a set instruction writes
Operand(ins) ==
  CASE ins.op = "set" -> ins.v
    [] ins.op = "setAcc" -> Top(ctl).acc
    [] ins.op = "setInc" -> Top(ctl).acc + 1

(***************************************************************************)
(* Actions.                                                                *)
(***************************************************************************)
InitEngine ==
  /\ scn \in Scenarios
  /\ store = [t \in Targets |-> [k \in Keys |-> InitStore(scn, t, k)]]
  /\ targetMap =
       [t \in Targets |->
          [has |-> FALSE, keys |-> <<>>, dep |-> [k \in DepKeys |-> <<>>]]]
  /\ effects =
       [e \in Effects |-> [created |-> FALSE, active |-> FALSE, deps |-> <<>>]]
  /\ activeReactiveEffectStack = <<>>
  /\ shouldTrack = TRUE
  /\ computeds =
       [c \in Computeds |->
          [created |-> FALSE, dirty |-> FALSE, value |-> Undefined]]
  /\ ctl = <<>>
  /\ ret = Undefined
  /\ LOCKED = TRUE
  /\ thrown = FALSE
  /\ op = OpOf(Ins("init", "-", 0, "-"))
  /\ scheduled = <<>>
  /\ runs = [e \in Effects \cup Callbacks |-> 0]
  /\ onStops = [e \in Effects |-> "no"]
  /\ reads = [e \in Effects |-> {}]
  /\ evals = [c \in Computeds |-> "no"]

Init ==
  /\ InitEngine
  /\ cref = ComputedRefImpl
  /\ vif = NoTemplate

\* the effects and computed values a body refers to exist when it is created
Refs(e) ==
  {Body(scn, e)[i].e : i \in 1..Len(Body(scn, e))} \ {"-"}
RefsCreated(e) ==
  \A x \in Refs(e) :
    IF x \in Computeds THEN computeds[x].created ELSE x = e \/ effects[x].created

\* the user calls effect(fn)
CreateEffect ==
  \E e \in ScnEffects(scn) :
    /\ Quiescent
    /\ InBounds
    /\ ~effects[e].created
    /\ RefsCreated(e)
    /\ Do(Ins("effect", "-", 0, e), effect(Fetched, e))

\* the user calls computed(getter)
CreateComputed ==
  \E c \in ScnComputeds(scn) :
    /\ Quiescent
    /\ ~computeds[c].created
    /\ RefsCreated(Runner(c))
    /\ Do(Ins("computed", "-", 0, c), computed(Fetched, c))

DoGet ==
  \E ins \in Fetch : ins.op = "get" /\ Do(ins, get(Fetched, ins.t, ins.k))

DoHas ==
  \E ins \in Fetch : ins.op = "has" /\ Do(ins, has(Fetched, ins.t, ins.k))

DoOwnKeys ==
  \E ins \in Fetch : ins.op = "ownKeys" /\ Do(ins, ownKeys(Fetched, ins.t))

DoSet ==
  \E ins \in Fetch :
    /\ ins.op \in {"set", "setAcc", "setInc"}
    /\ Do(ins, set(Fetched, ins.t, ins.k, Operand(ins), ins.t))

DoRawSet ==
  \E ins \in Fetch :
    ins.op = "rawSet" /\ Do(ins, rawSet(Fetched, ins.t, ins.k, ins.v))

DoDelete ==
  \E ins \in Fetch :
    ins.op = "delete" /\ Do(ins, deleteProperty(Fetched, ins.t, ins.k))

DoClear ==
  \E ins \in Fetch : ins.op = "clear" /\ Do(ins, clear(Fetched, ins.t))

DoReadonlySet ==
  \E ins \in Fetch :
    ins.op = "readonlySet" /\ Do(ins, readonlySet(Fetched, ins.t, ins.k, ins.v))

DoReadonlyDelete ==
  \E ins \in Fetch :
    ins.op = "readonlyDelete" /\ Do(ins, readonlyDeleteProperty(Fetched, ins.t, ins.k))

DoPauseTracking ==
  \E ins \in Fetch : ins.op = "pauseTracking" /\ Do(ins, pauseTracking(Fetched))

DoResumeTracking ==
  \E ins \in Fetch : ins.op = "resumeTracking" /\ Do(ins, resumeTracking(Fetched))

DoLock ==
  \E ins \in Fetch : ins.op = "lock" /\ Do(ins, lock(Fetched))

DoUnlock ==
  \E ins \in Fetch : ins.op = "unlock" /\ Do(ins, unlock(Fetched))

\* a call of an effect's handle
DoCall ==
  \E ins \in Fetch :
    ins.op \in {"call", "tryCall"} /\ Do(ins, run(Fetched, ins.e))

\* throw
DoThrow ==
  \E ins \in Fetch :
    ins.op = "throw" /\ Do(ins, [Fetched EXCEPT !.thrown = TRUE])

DoStop ==
  \E ins \in Fetch : ins.op = "stop" /\ Do(ins, stop(Fetched, ins.e))

\* a read of c.value
DoValue ==
  \E ins \in Fetch : ins.op = "value" /\ Do(ins, value(Fetched, ins.e))

\* if (!acc): skip
DoUnless ==
  \E ins \in Fetch :
    /\ ins.op = "unless"
    /\ LET acc == Top(ctl).acc
           falsy == acc \in {0, NaN, Undefined}
       IN  Do(ins, [Cur EXCEPT
                      !.ctl[Len(ctl)].pc = IF falsy THEN @ + 1 + ins.v ELSE @ + 1])

\* the body on top returns: the finally of run() pops the effect stack
BodyReturn ==
  /\ ~thrown
  /\ ctl # <<>>
  /\ Top(ctl).kind = "body"
  /\ Top(ctl).pc > Len(Body(scn, Top(ctl).eff))
  /\ Becomes([runExit(Cur, Top(ctl), FALSE) EXCEPT !.ret = Top(ctl).acc])
  /\ UNCHANGED op

\* the body on top executes inside a try block: its last instruction was one
Catches(stack) ==
  /\ stack # <<>>
  /\ Top(stack).kind = "body"
  /\ Top(stack).pc > 1
  /\ Body(scn, Top(stack).eff)[Top(stack).pc - 1].op = "tryCall"

\* the exception leaves the call on top of the stack: a body leaves through
\* the finally of run(), the forEach loops of trigger() and get value() have
\* no handler; a caller inside a try block catches it
Unwind ==
  /\ thrown
  /\ ctl # <<>>
  /\ LET f == Top(ctl)
         m == IF f.kind = "body"
              THEN runExit(Cur, f, TRUE)
              ELSE [Cur EXCEPT !.ctl = Pop(@)]
     IN  Becomes(IF Catches(m.ctl)
                 THEN [Return(m, Undefined) EXCEPT !.thrown = FALSE]
                 ELSE m)
  /\ UNCHANGED op

\* the next iteration of computedRunners.forEach(run) / effects.forEach(run)
ScheduleRun ==
  /\ ~thrown
  /\ ctl # <<>>
  /\ Top(ctl).kind = "trig"
  /\ Top(ctl).queue # <<>>
  /\ LET e == Head(Top(ctl).queue)
     IN  Becomes(scheduleRun([Cur EXCEPT
                                !.ctl[Len(ctl)].queue = Tail(@),
                                !.ctl[Len(ctl)].done = Append(@, e)], e))
  /\ UNCHANGED op

\* trigger() returns
TriggerReturn ==
  /\ ~thrown
  /\ ctl # <<>>
  /\ Top(ctl).kind = "trig"
  /\ Top(ctl).queue = <<>>
  /\ Becomes([Cur EXCEPT !.ctl = Pop(@)])
  /\ UNCHANGED op

\* effect.onStop() returned to stop()
StopReturn ==
  /\ ~thrown
  /\ ctl # <<>>
  /\ Top(ctl).kind = "stop"
  /\ Becomes(stopAfterOnStop(Cur, Top(ctl).eff))
  /\ UNCHANGED op

\* runner() returned to get value()
ValueReturn ==
  /\ ~thrown
  /\ ctl # <<>>
  /\ Top(ctl).kind = "value"
  /\ Becomes(valueAfterRunner(Cur, Top(ctl).eff))
  /\ UNCHANGED op

Next ==
  \/ CreateEffect
  \/ CreateComputed
  \/ DoGet
  \/ DoHas
  \/ DoOwnKeys
  \/ DoSet
  \/ DoRawSet
  \/ DoDelete
  \/ DoClear
  \/ DoReadonlySet
  \/ DoReadonlyDelete
  \/ DoPauseTracking
  \/ DoResumeTracking
  \/ DoLock
  \/ DoUnlock
  \/ DoCall
  \/ DoThrow
  \/ DoStop
  \/ DoValue
  \/ DoUnless
  \/ BodyReturn
  \/ Unwind
  \/ ScheduleRun
  \/ TriggerReturn
  \/ StopReturn
  \/ ValueReturn

Spec == Init /\ [][Next]_vars

\* the class-based computed value alone
InitCRef ==
  /\ InitEngine
  /\ scn = "basic"
  /\ cref = ComputedRefImpl
  /\ vif = NoTemplate
NextCRef ==
  \/ CRefWrite
  \/ CRefRead
  \/ CRefWatch
  \/ CRefFlush
SpecCRef == InitCRef /\ [][NextCRef]_vars

\* the v-if transform alone, for every list of at most MaxSiblings children
InitVIf ==
  /\ InitEngine
  /\ scn = "basic"
  /\ cref = ComputedRefImpl
  /\ vif \in {Parsed(tpl) : tpl \in Templates}
NextVIf ==
  \/ VIfRoot
  \/ VIfBranch
  \/ VIfOther
SpecVIf == InitVIf /\ [][NextVIf]_vars


(***************************************************************************)
(* Properties.                                                             *)
(***************************************************************************)
Frames == {ctl[i] : i \in 1..Len(ctl)}
TrigFrames == {f \in Frames : f.kind = "trig"}
Dep(t, k) == Range(targetMap[t].dep[k])
Live(e) == effects[e].created /\ effects[e].active
Truthy(v) == v \notin {0, NaN, Undefined}
\* the user operation op wrote a value that is not the one stored before
Changed == ~op.had \/ op.ins.v # op.old

\* C2: within one trigger call every computed runner is scheduled before any
\* plain effect: once a plain effect was scheduled, no computed runner is
\* scheduled after it or still waits in the queue
C2_DerivedBeforePlain ==
  \A f \in TrigFrames :
    \A i \in 1..Len(f.done) :
      ~IsComputed(scn, f.done[i]) =>
        /\ \A j \in (i + 1)..Len(f.done) : ~IsComputed(scn, f.done[j])
        /\ \A e \in Range(f.queue) : ~IsComputed(scn, e)

\* a DELETE trigger that scheduled a computed runner and then a plain effect
C2_Witness ==
  \E f \in TrigFrames :
    /\ f.typ = "delete"
    /\ \E i, j \in 1..Len(f.done) :
         i < j /\ IsComputed(scn, f.done[i]) /\ ~IsComputed(scn, f.done[j])

\* C10: one trigger call schedules no effect twice, through however many deps
\* of the call the effect is reachable
C10_OncePerTrigger ==
  \A f \in TrigFrames :
    LET all == f.done \o f.queue
    IN  \A i, j \in 1..Len(all) : all[i] = all[j] => i = j

\* the ADD of a key, by the user, scheduled an effect that was subscribed both
\* to the key and to the iteration key
C10_Witness ==
  \E f \in TrigFrames :
    /\ Len(ctl) = 1
    /\ f.typ = "add"
    /\ \E e \in Range(f.done) : e \in op.subs /\ e \in op.iter


\* the getter of c only reads raw state
PureGetter(c) ==
  LET body == Body(scn, Runner(c))
  IN  body # <<>> /\ \A i \in 1..Len(body) : body[i].op = "get"
\* what a pure getter returns on the current state: its last read
GetterResult(c) ==
  LET body == Body(scn, Runner(c))
  IN  ReflectGet(Cur, body[Len(body)].t, body[Len(body)].k)
\* the body on top of the call stack has just evaluated c.value into acc
JustRead(c) ==
  /\ ctl # <<>>
  /\ Top(ctl).kind = "body"
  /\ Top(ctl).pc > 1
  /\ Body(scn, Top(ctl).eff)[Top(ctl).pc - 1] = Value(c)
PlainBodyOnTop ==
  ctl # <<>> /\ Top(ctl).kind = "body" /\ ~IsComputed(scn, Top(ctl).eff)

\* C3: while a plain effect's body executes, a computed value whose getter
\* reads raw state is either marked dirty or caches the getter's result on
\* the current state, and the value the body reads from it is the getter's
\* result on the current state
C3_FreshDerivedValue ==
  \A c \in Computeds :
    (computeds[c].created /\ PureGetter(c) /\ Live(Runner(c)) /\ PlainBodyOnTop) =>
      /\ computeds[c].dirty \/ computeds[c].value = GetterResult(c)
      /\ JustRead(c) => Top(ctl).acc = GetterResult(c)

\* effect A, re-run by the trigger of a user write that changed x, has read
\* the computed value, which was recomputed and is the value written
C3_Witness ==
  /\ op.ins.op = "set"
  /\ Changed
  /\ Len(ctl) = 2
  /\ ctl[1].kind = "trig"
  /\ JustRead("c1")
  /\ PureGetter("c1")
  /\ Live("r1")
  /\ Top(ctl).tracked
  /\ runs["r1"] = 1
  /\ Top(ctl).acc = op.ins.v
  /\ op.ins.v # op.old

\* an effect that reads obj.b and reads obj.a only when obj.b is truthy
Conditional(e) == Body(scn, e) = <<Get("b"), Unless(1), Get("a")>>

\* C6: between user operations a live effect that reads obj.a only when obj.b
\* is truthy is subscribed to obj.a exactly when obj.b is truthy, and a user
\* write that changes obj.a re-runs it once when obj.b is truthy and not at
\* all when obj.b is falsy
C6_BranchRediscovery ==
  \A e \in PlainEffects :
    (Conditional(e) /\ Live(e) /\ Quiescent) =>
      /\ e \in Dep("obj", "a") <=> Truthy(ReflectGet(Cur, "obj", "b"))
      /\ (op.ins.op = "set" /\ op.ins.k = "a" /\ Changed /\ e \in op.active) =>
           runs[e] = IF Truthy(ReflectGet(Cur, "obj", "b")) THEN 1 ELSE 0

\* obj.b is falsy, the effect was subscribed to obj.a before (its dep exists)
\* and is not any more, and the user's write to obj.a did not run it
C6_Witness ==
  \E e \in PlainEffects :
    /\ Conditional(e)
    /\ Live(e)
    /\ Quiescent
    /\ ~Truthy(ReflectGet(Cur, "obj", "b"))
    /\ "a" \in Range(targetMap["obj"].keys)
    /\ e \notin Dep("obj", "a")
    /\ op.ins.op = "set"
    /\ op.ins.k = "a"
    /\ Changed
    /\ runs[e] = 0

\* the next step calls the handle of e: from a trigger loop or from a body
Invoking(e) ==
  \/ /\ ctl # <<>>
     /\ Top(ctl).kind = "trig"
     /\ Top(ctl).queue # <<>>
     /\ Head(Top(ctl).queue) = e
     /\ Scheduler(scn, e) = "none"
  \/ /\ AtBody
     /\ Body(scn, Top(ctl).eff)[Top(ctl).pc] = Call(e)
\* a body doing state.n++
Increments(e, k) == Body(scn, e) = <<Get(k), SetInc(k)>>

\* a call of the handle of a live effect that is on the effect stack starts
\* no body and leaves the subscriptions and the effect stack as they are
GuardedCall ==
  \A e \in Effects :
    (Invoking(e) /\ Live(e) /\ e \in Range(activeReactiveEffectStack)) =>
      /\ activeReactiveEffectStack' = activeReactiveEffectStack
      /\ targetMap' = targetMap
      /\ effects' = effects
      /\ runs' = runs
      /\ Len(ctl') <= Len(ctl)
\* a body doing n++ that has finished left n at the value it read plus 1, and
\* the user's call of its handle executed it exactly once
IncrementedOnce ==
  \A e \in PlainEffects, k \in Keys :
    (Increments(e, k) /\ ctl' # <<>> /\ Top(ctl').kind = "body"
       /\ Top(ctl').eff = e /\ Top(ctl').pc = 3) =>
      /\ store'["obj"][k] = Top(ctl').acc + 1
      /\ (Len(ctl') = 1 /\ op'.ins = Call(e)) => runs'[e] = 1

\* C8: a call of the handle of a live effect that is on the effect stack
\* starts no body, leaves the subscriptions and the effect stack as they are;
\* a body doing n++ has, whenever it finishes, left n at the value it read
\* plus 1, and a user's call of its handle executes it exactly once
C8_ReentrancyGuard == [][GuardedCall /\ IncrementedOnce]_vars

\* the body doing n++ is called from its own trigger while it is on the stack
C8_Witness ==
  \E e \in PlainEffects, k \in Keys :
    /\ Increments(e, k)
    /\ Invoking(e)
    /\ Live(e)
    /\ e \in Range(activeReactiveEffectStack)
    /\ op.ins = Call(e)

\* C9: with a live inner effect that reads a and a live outer effect that
\* reads b, calls the inner effect and reads c, between user operations a is
\* subscribed to by the inner effect only and b and c by the outer only; a
\* user write that changes a runs only the inner effect, once; one that
\* changes b or c runs the outer once and the inner once
C9_NestedEffects ==
  (/\ scn = "nested"
   /\ Quiescent
   /\ Live("e1")
   /\ Live("e2")) =>
    /\ Dep("obj", "a") = {"e1"}
    /\ Dep("obj", "b") = {"e2"}
    /\ Dep("obj", "c") = {"e2"}
    /\ (op.ins.op = "set" /\ Changed /\ {"e1", "e2"} \subseteq op.active) =>
         /\ op.ins.k = "a" => (runs["e1"] = 1 /\ runs["e2"] = 0)
         /\ op.ins.k \in {"b", "c"} => (runs["e1"] = 1 /\ runs["e2"] = 1)

\* the user changed c, which the outer body reads after the inner call
C9_Witness ==
  /\ scn = "nested"
  /\ Quiescent
  /\ Live("e1")
  /\ Live("e2")
  /\ op.ins.op = "set"
  /\ op.ins.k = "c"
  /\ Changed
  /\ runs["e1"] = 1
  /\ runs["e2"] = 1

\* the body of e only reads: it makes no write, stop or call of its own
ReadOnly(e) ==
  \A i \in 1..Len(Body(scn, e)) :
    Body(scn, e)[i].op \in {"get", "has", "ownKeys", "unless", "value"}
\* the user's write is the only write: every effect created only reads
OnlyUserWrites == \A e \in Effects : effects[e].created => ReadOnly(e)

\* C1: when the user's write is the only write, a live effect without a
\* scheduler that was subscribed to the written location has, once the write
\* returned, re-run exactly once if the value written is not the value that
\* was stored, and not at all if it is the value that was stored
C1_WriteRerunsOnce ==
  (Quiescent /\ op.ins.op = "set" /\ op.had /\ OnlyUserWrites) =>
    \A R \in op.subs \cap op.active :
      Scheduler(scn, R) = "none" =>
        runs[R] = IF op.ins.v # op.old THEN 1 ELSE 0

\* the half of C1 about a value that differs from the stored one
C1_ChangedValueRerunsOnce ==
  (Quiescent /\ op.ins.op = "set" /\ op.had /\ OnlyUserWrites
     /\ op.ins.v # op.old) =>
    \A R \in op.subs \cap op.active : Scheduler(scn, R) = "none" => runs[R] = 1

\* the getter of c executes only in a call made by get value()
CalledByValue(c) ==
  \A i \in 1..Len(ctl) :
    (ctl[i].kind = "body" /\ ctl[i].eff = Runner(c)) =>
      i > 1 /\ ctl[i - 1].kind = "value" /\ ctl[i - 1].eff = c

\* C4: the getter of a computed value executes only in a call made by a read
\* of the value, not at construction and not in a trigger, and it executes at
\* most once as long as the raw state does not change
C4_LazyGetter ==
  \A c \in Computeds :
    computeds[c].created =>
      /\ CalledByValue(c)
      /\ op.ins = Ins("computed", "-", 0, c) => runs[Runner(c)] = 0
      /\ evals[c] # "again"

\* the parts of C4 that do not count the executions
C4_CalledOnlyByRead ==
  \A c \in Computeds :
    computeds[c].created =>
      /\ CalledByValue(c)
      /\ op.ins = Ins("computed", "-", 0, c) => runs[Runner(c)] = 0

\* C5: a read of a computed value by the user returns the getter's result on
\* the state the read is made in, whatever was written since the getter last
\* executed: by the user, by the getter itself, before or after stop of the
\* runner
C5_RecomputesAfterChange ==
  \A c \in Computeds :
    (Quiescent /\ op.ins = Value(c) /\ ReturnsFirstRead(c)) =>
      ret = op.getter

\* C5 for a runner that was not stopped
C5_LiveRecomputes ==
  \A c \in Computeds :
    (Quiescent /\ op.ins = Value(c) /\ ReturnsFirstRead(c) /\ Runner(c) \in op.active) =>
      ret = op.getter

\* C5 for a getter that only reads and a runner that was not stopped
C5_PureLiveRecomputes ==
  \A c \in Computeds :
    (Quiescent /\ op.ins = Value(c) /\ PureGetter(c) /\ Live(Runner(c))) =>
      ret = GetterResult(c)

\* C7: a trigger never executes the body of a stopped effect (a body called by
\* a trigger loop is the body of an effect that was active when called), and
\* the user's call of a stopped effect's handle executes the body once
C7_StoppedNeverTriggered ==
  /\ \A i \in 2..Len(ctl) :
       (ctl[i].kind = "body" /\ ctl[i - 1].kind = "trig") => ctl[i].tracked
  /\ (Quiescent /\ op.ins.op = "call" /\ op.ins.e \notin op.active) =>
       runs[op.ins.e] = 1

\* the half of C7 about the direct call
C7_DirectCallRuns ==
  (Quiescent /\ op.ins.op = "call" /\ op.ins.e \notin op.active) =>
    runs[op.ins.e] = 1

\* the effects of the bodies in progress that run() pushed, innermost last
RECURSIVE Running(_)
Running(stack) ==
  IF stack = <<>>
  THEN <<>>
  ELSE LET f == Top(stack)
       IN  IF f.kind = "body" /\ f.tracked
           THEN Append(Running(Pop(stack)), f.eff)
           ELSE Running(Pop(stack))

\* a step in which an exception leaves the call on top of the stack: the call
\* is gone, the calls below it are as they were (a catching body gets its
\* result), and the exception goes on unless the caller catches it
Propagates ==
  (thrown /\ ctl # <<>>) =>
    /\ Len(ctl') = Len(ctl) - 1
    /\ \A i \in 1..Len(ctl') : [ctl'[i] EXCEPT !.acc = 0] = [ctl[i] EXCEPT !.acc = 0]
    /\ thrown' \/ Catches(ctl')
    /\ targetMap' = targetMap
    /\ effects' = effects

\* C11: the effect stack always holds exactly the effects whose bodies are in
\* progress and were pushed by run(), also after a body threw: the throwing
\* effect is popped when the exception leaves its run, the exception goes up
\* call by call until a try block or the user, and reads are attributed to
\* the innermost effect still in progress
C11_ThrowPopsEffect ==
  [][activeReactiveEffectStack' = Running(ctl') /\ Propagates]_vars

\* the exception of an effect run by the trigger of a user's write has
\* reached the user, and the effect stack is empty again
C11_Witness ==
  /\ scn = "throw"
  /\ Quiescent
  /\ thrown
  /\ op.ins.op = "set"
  /\ runs["e1"] = 1
  /\ activeReactiveEffectStack = <<>>

\* the enclosing effect caught the exception of the effect it called and then
\* read b: the read is the enclosing effect's
C11_CaughtWitness ==
  /\ scn = "throw"
  /\ Quiescent
  /\ ~thrown
  /\ runs["e1"] = 1
  /\ runs["e2"] = 1
  /\ ReflectGet(Cur, "obj", "a") = 1
  /\ Dep("obj", "b") = {"e2"}

\* C12: however often and from wherever stop is called on an effect, its
\* onStop callback is called at most once, and exactly once when the effect
\* is stopped
C12_OnStopOnce ==
  \A e \in Effects :
    OnStop(scn, e) # "none" =>
      /\ onStops[e] # "again"
      /\ (Quiescent /\ effects[e].created /\ ~effects[e].active) => onStops[e] = "once"

\* C12 for the effects whose onStop callback does not call stop: also a stop
\* made from inside the effect's own body calls onStop once
C12_OnStopOnceUnlessReentered ==
  \A e \in Effects :
    (OnStop(scn, e) # "none" /\ Body(scn, OnStop(scn, e)) = <<>>) =>
      /\ onStops[e] # "again"
      /\ (Quiescent /\ effects[e].created /\ ~effects[e].active) => onStops[e] = "once"

\* a stop of an effect that is not active changes nothing
C12_SecondStopChangesNothing ==
  [][\A e \in Effects :
       (Quiescent /\ op'.ins = Stop(e) /\ effects[e].created /\ ~effects[e].active) =>
         /\ <<store, targetMap, effects, activeReactiveEffectStack, computeds, ctl,
              onStops>>' =
            <<store, targetMap, effects, activeReactiveEffectStack, computeds, ctl,
              onStops>>]_vars

\* the effects that stand for the shape of the target of the user operation:
\* the ones that enumerated its keys or, for an array, that read its length
ShapeSubscribers == IF IsArray(op.ins.t) THEN op.len ELSE op.iter

\* C13: when the user deletes an own key and his delete is the only write,
\* every live effect without a scheduler that was subscribed to the key (by a
\* get or a has) has re-run once when the delete returns, and every live
\* effect that neither read the key nor enumerated the keys (for an array:
\* nor read its length) has not run
C13_DeleteReruns ==
  (Quiescent /\ op.ins.op = "delete" /\ op.had /\ OnlyUserWrites) =>
    \A R \in op.active :
      Scheduler(scn, R) = "none" =>
        /\ R \in op.subs => runs[R] = 1
        /\ R \notin op.subs \cup ShapeSubscribers => runs[R] = 0

\* the user deleted a, which one effect had read by get and one by has
C13_Witness ==
  /\ Quiescent
  /\ op.ins = Delete("a")
  /\ op.had
  /\ OnlyUserWrites
  /\ \E R1, R2 \in op.active :
       /\ Body(scn, R1) = <<Get("a")>>
       /\ Body(scn, R2) = <<Has("a")>>
       /\ {R1, R2} \subseteq op.subs
       /\ runs[R1] = 1
       /\ runs[R2] = 1

\* the user deleted b, which a live effect that reads a never read
C13_UnreadWitness ==
  /\ Quiescent
  /\ op.ins = Delete("b")
  /\ op.had
  /\ OnlyUserWrites
  /\ \E R \in op.active :
       /\ Body(scn, R) = <<Get("a")>>
       /\ R \notin op.subs \cup op.iter
       /\ runs[R] = 0
  /\ \E R \in op.active : runs[R] = 1

\* C14: when the user's write is the only write, a live effect without a
\* scheduler that enumerated the keys of the object (for an array: that is
\* subscribed to length) has re-run once after the ADD of a new key and after
\* the DELETE of an existing key, and has not run after a SET that changed an
\* existing key to which it was not subscribed
C14_EnumerationReruns ==
  (Quiescent /\ op.ins.op \in {"set", "delete"} /\ OnlyUserWrites) =>
    \A R \in ShapeSubscribers \cap op.active :
      Scheduler(scn, R) = "none" =>
        /\ (op.ins.op = "set" /\ ~op.had) => runs[R] = 1
        /\ (op.ins.op = "delete" /\ op.had) => runs[R] = 1
        /\ (op.ins.op = "set" /\ op.had /\ op.ins.v # op.old /\ R \notin op.subs) =>
             runs[R] = 0

\* the user added a key to an object whose keys a live effect had enumerated
\* without reading that key
C14_Witness ==
  /\ Quiescent
  /\ op.ins.op = "set"
  /\ ~op.had
  /\ ~IsArray(op.ins.t)
  /\ OnlyUserWrites
  /\ \E R \in (op.iter \cap op.active) \ op.subs : runs[R] = 1

\* the user added an index to an array: the effect that read length re-ran,
\* the effect that enumerated the array did not
C14_ArrayWitness ==
  /\ Quiescent
  /\ op.ins.op = "set"
  /\ ~op.had
  /\ IsArray(op.ins.t)
  /\ \E R \in op.len \cap op.active : runs[R] = 1
  /\ \E R \in (op.iter \cap op.active) \ op.len : runs[R] = 0

\* the user changed an existing key that the enumerating effect did not read
C14_SetWitness ==
  /\ Quiescent
  /\ op.ins.op = "set"
  /\ op.had
  /\ op.ins.v # op.old
  /\ OnlyUserWrites
  /\ \E R \in (ShapeSubscribers \cap op.active) \ op.subs : runs[R] = 0
  /\ \E R \in op.subs \cap op.active : runs[R] = 1

\* the next step is the user's write or delete through the readonly proxy
ReadonlyWrite == Quiescent /\ op'.ins.op \in {"readonlySet", "readonlyDelete"}
\* what the same write or delete does through the mutable proxy
MutableWrite ==
  IF op'.ins.op = "readonlySet"
  THEN set(Fetched, op'.ins.t, op'.ins.k, op'.ins.v, op'.ins.t)
  ELSE deleteProperty(Fetched, op'.ins.t, op'.ins.k)

\* C15: a write or delete through the readonly proxy made while LOCKED
\* returns true, leaves the target, the dependency store and the effects as
\* they are and starts no trigger; made while not LOCKED it does what the
\* mutable proxy does
C15_ReadonlyLocked ==
  [][ReadonlyWrite =>
       IF LOCKED
       THEN /\ ret' = 1
            /\ store' = store
            /\ targetMap' = targetMap
            /\ effects' = effects
            /\ ctl' = <<>>
       ELSE /\ store' = MutableWrite.store
            /\ targetMap' = MutableWrite.targetMap
            /\ effects' = MutableWrite.effects
            /\ ctl' = MutableWrite.ctl]_vars

\* while LOCKED the user wrote, through the readonly proxy, a value that is
\* not the stored one to a key that a live effect had read
C15_Witness ==
  /\ Quiescent
  /\ op.ins.op = "readonlySet"
  /\ LOCKED
  /\ op.had
  /\ op.ins.v # op.old
  /\ op.subs \cap op.active # {}
  /\ ReflectGet(Cur, op.ins.t, op.ins.k) = op.old
  /\ \A e \in Effects : runs[e] = 0

\* while not LOCKED the user's write through the readonly proxy re-ran the
\* effect that had read the key
C15_UnlockedWitness ==
  /\ Quiescent
  /\ op.ins.op = "readonlySet"
  /\ ~LOCKED
  /\ ReflectGet(Cur, op.ins.t, op.ins.k) = op.ins.v
  /\ \E e \in op.subs : runs[e] = 1

\* the user operation wrote a key that the object did not have and that was
\* looked up on its prototype: the set trap of the prototype was called
Delegated ==
  /\ op.ins.op \in {"set", "rawSet"}
  /\ Proto(op.ins.t) # "none"
  /\ ~op.had

\* C16: a write delegated to the prototype's set trap triggers nothing on the
\* prototype: a live effect subscribed to the key on the prototype only has
\* not run, and an effect subscribed to the key on the object has run once if
\* the write was made through the proxy; a write on the raw object has run no
\* effect at all and has stored the value
C16_NoTriggerViaPrototype ==
  Quiescent =>
    /\ Delegated =>
         \A R \in op.active :
           /\ R \in op.inh \ op.subs => runs[R] = 0
           /\ (op.ins.op = "set" /\ R \in op.subs) => runs[R] = 1
    /\ op.ins.op = "rawSet" =>
         /\ \A e \in Effects : runs[e] = 0
         /\ store[op.ins.t][op.ins.k] = op.ins.v

\* the user wrote, through the proxy of the object, a key found on the
\* prototype, to which one live effect was subscribed on both and another on
\* the prototype only
C16_Witness ==
  /\ Quiescent
  /\ Delegated
  /\ op.ins.op = "set"
  /\ op.ins.v # op.old
  /\ \E R1, R2 \in op.active :
       /\ R1 \in op.subs \cap op.inh
       /\ R2 \in op.inh \ op.subs
       /\ runs[R1] = 1
       /\ runs[R2] = 0

\* the user wrote the same on the raw object
C16_RawWitness ==
  /\ Quiescent
  /\ Delegated
  /\ op.ins.op = "rawSet"
  /\ op.ins.v # op.old
  /\ op.subs \cap op.active # {}
  /\ (op.inh \ op.subs) \cap op.active # {}
  /\ \A e \in Effects : runs[e] = 0

\* e has a scheduler of its own (not the one of computed())
Scheduled(e) == Scheduler(scn, e) = "keep"

\* C17: the body of an effect with a scheduler is never called by a trigger
\* loop; a user's write that changed a key to which the live effect was
\* subscribed called the scheduler once, with the effect, and did not run the
\* body; the creation of the effect ran the body once without a call of the
\* scheduler; the user's call of the handle runs the body once
C17_SchedulerInsteadOfRun ==
  \A R \in Effects :
    Scheduled(R) =>
      /\ \A i \in 2..Len(ctl) :
           (ctl[i].kind = "body" /\ ctl[i].eff = R) => ctl[i - 1].kind # "trig"
      /\ (Quiescent /\ op.ins.op = "set" /\ op.had /\ op.ins.v # op.old
            /\ R \in op.subs \cap op.active) =>
           /\ SelectSeq(scheduled, LAMBDA x : x = R) = <<R>>
           /\ runs[R] = 0
      /\ (Quiescent /\ op.ins = Ins("effect", "-", 0, R)) =>
           /\ scheduled = <<>>
           /\ runs[R] = 1
      /\ (Quiescent /\ op.ins = Call(R)) =>
           /\ scheduled = <<>>
           /\ runs[R] = 1

\* the user changed a key read by a live effect with a scheduler and by one
\* without: the scheduler was called with the first, the second re-ran
C17_Witness ==
  /\ Quiescent
  /\ op.ins.op = "set"
  /\ op.had
  /\ op.ins.v # op.old
  /\ \E R1, R2 \in op.subs \cap op.active :
       /\ Scheduled(R1)
       /\ ~Scheduled(R2)
       /\ scheduled = <<R1>>
       /\ runs[R1] = 0
       /\ runs[R2] = 1

\* after a trigger that called its scheduler, the user called the handle
C17_CallWitness ==
  /\ Quiescent
  /\ \E R \in Effects :
       /\ Scheduled(R)
       /\ op.ins = Call(R)
       /\ runs[R] = 1
       /\ R \in Dep("obj", "a")
       /\ ReflectGet(Cur, "obj", "a") # 0

\* the user's effect(fn, options) has returned: fn was executed once, or not
\* at all if options.lazy; a lazy effect is subscribed to nothing
Created ==
  \A e \in PlainEffects :
    (Quiescent /\ op.ins = Ins("effect", "-", 0, e)) =>
      /\ runs[e] = IF Lazy(scn, e) THEN 0 ELSE 1
      /\ Lazy(scn, e) =>
           /\ effects[e].deps = <<>>
           /\ \A t \in Targets, k \in DepKeys : e \notin Dep(t, k)
\* a lazy effect gets a subscription only in a step made while it is the
\* running effect, that is, after a call of its handle
SubscribesWhenRun ==
  \A e \in Effects :
    (Lazy(scn, e) /\ effects[e].created /\ effects'[e].deps # effects[e].deps
       /\ effects[e].deps = <<>>) =>
      /\ activeReactiveEffectStack # <<>>
      /\ Top(activeReactiveEffectStack) = e
\* a lazy effect without a scheduler that is subscribed to the key the user
\* changed re-runs once, like any other
TriggeredLikeOthers ==
  (Quiescent /\ op.ins.op = "set" /\ op.had /\ op.ins.v # op.old /\ OnlyUserWrites) =>
    \A R \in op.subs \cap op.active :
      (Lazy(scn, R) /\ Scheduler(scn, R) = "none") => runs[R] = 1

\* C18: effect(fn, options) executes fn once before it returns, and not at
\* all if options.lazy; a lazy effect has no subscription until it is run by a
\* call of its handle, and is then re-run by a trigger like any other effect
C18_LazyCreation ==
  [][Created' /\ SubscribesWhenRun /\ TriggeredLikeOthers']_vars

\* a lazy effect, run by a call of its handle, was re-run by the user's write
C18_Witness ==
  /\ Quiescent
  /\ op.ins.op = "set"
  /\ op.had
  /\ op.ins.v # op.old
  /\ \E R \in (op.subs \cap op.active) \cap PlainEffects :
       Lazy(scn, R) /\ runs[R] = 1

\* a lazy effect has just been created
C18_CreatedWitness ==
  /\ Quiescent
  /\ \E e \in PlainEffects :
       /\ Lazy(scn, e)
       /\ op.ins = Ins("effect", "-", 0, e)
       /\ runs[e] = 0
       /\ \E e2 \in PlainEffects : Dep("obj", "a") = {e2}

\* the next step is a read through the proxy, made by the body on top
Reading == \E ins \in Fetch : ins.op \in {"get", "has", "ownKeys"}
\* a read made while tracking is paused leaves the dependency store and the
\* deps of every effect as they are
PausedReadTracksNothing ==
  (Reading /\ ~shouldTrack) => (targetMap' = targetMap /\ effects' = effects)
\* trigger does the same with tracking paused and with tracking on
TriggerIgnoresPause ==
  ~shouldTrack =>
  \A t \in Targets, type \in {"set", "add", "delete", "clear"},
     k \in Keys \cup {"-"} :
    [trigger(Cur, t, type, k) EXCEPT !.shouldTrack = TRUE] =
      trigger([Cur EXCEPT !.shouldTrack = TRUE], t, type, k)

\* C19: a read made while tracking is paused, by the body of whatever effect,
\* changes neither the dependency store nor the deps of an effect; in every
\* state trigger schedules the same effects whether tracking is paused or not
C19_PausedTrackNoOp ==
  [][PausedReadTracksNothing /\ TriggerIgnoresPause']_vars

\* the body of the running, live effect has read a while tracking was
\* paused and is not subscribed to a
C19_Witness ==
  /\ ~shouldTrack
  /\ AtBody
  /\ Top(ctl).pc > 1
  /\ Body(scn, Top(ctl).eff)[Top(ctl).pc - 1] = Get("a")
  /\ Top(ctl).tracked
  /\ Top(activeReactiveEffectStack) = Top(ctl).eff
  /\ Top(ctl).eff \notin Dep("obj", "a")
  /\ effects[Top(ctl).eff].deps = <<>>

\* with tracking paused the user changed a key; its subscriber re-ran
C19_TriggerWitness ==
  /\ Quiescent
  /\ ~shouldTrack
  /\ op.ins.op = "set"
  /\ op.had
  /\ op.ins.v # op.old
  /\ \E R \in op.subs \cap op.active :
       Body(scn, R) = <<Get("a")>> /\ runs[R] = 1 /\ effects[R].deps = <<>>

\* the user's write went to the ref in the slot
WroteThroughRef ==
  /\ op.ins.op = "set"
  /\ isRef(op.old)
  /\ ~isRef(op.ins.v)
\* the target the user's write or delete calls trigger() for
TriggerTarget == IF WroteThroughRef THEN RefObject(op.old) ELSE op.ins.t

\* C20: trigger on a target without a depsMap in targetMap changes nothing: it
\* starts no trigger loop and makes no entry, so that a user's write to such a
\* target runs no effect and calls no scheduler; track with an empty effect
\* stack changes nothing
C20_UntrackedNoOp ==
  /\ \A t \in Targets :
       ~targetMap[t].has =>
         /\ \A type \in {"set", "add", "delete", "clear"}, k \in Keys \cup {"-"} :
              trigger(Cur, t, type, k) = Cur
         /\ (Quiescent /\ TriggerTarget = t
               /\ op.ins.op \in {"set", "delete", "clear", "rawSet"}) =>
              /\ \A e \in Effects : runs[e] = 0
              /\ scheduled = <<>>
  /\ activeReactiveEffectStack = <<>> =>
       \A t \in Targets, k \in Keys :
         /\ track(Cur, t, "get", k) = Cur
         /\ track(Cur, t, "has", k) = Cur
         /\ track(Cur, t, "iterate", "-") = Cur

\* while a live effect exists, the user added a key to a target that was
\* never tracked: the key is stored, nothing ran, the target has no entry
C20_Witness ==
  /\ Quiescent
  /\ op.ins.op = "set"
  /\ ~targetMap[op.ins.t].has
  /\ ~op.had
  /\ store[op.ins.t][op.ins.k] = op.ins.v
  /\ op.active # {}
  /\ \A e \in Effects : runs[e] = 0

\* the body of a stopped effect, called by the user, has read a with no
\* effect on the effect stack
C20_TrackWitness ==
  /\ AtBody \/ (ctl # <<>> /\ Top(ctl).kind = "body")
  /\ Len(ctl) = 1
  /\ ~Top(ctl).tracked
  /\ Top(ctl).pc > 1
  /\ Body(scn, Top(ctl).eff)[Top(ctl).pc - 1] = Get("a")
  /\ activeReactiveEffectStack = <<>>
  /\ Top(ctl).eff \notin Dep("obj", "a")


\* the runners of the computed values the body of e reads, directly or through
\* the getter of a computed value it reads
Reads(e) ==
  {Runner(Body(scn, e)[i].e) :
     i \in {j \in 1..Len(Body(scn, e)) : Body(scn, e)[j].op = "value"}}
Chain(e) == Reads(e) \cup UNION {Reads(r) : r \in Reads(e)}
\* e was run, or its scheduler was called, since the user operation started
Invalidated(e) == runs[e] >= 1 \/ e \in Range(scheduled)
\* the user changed a location that a getter of e's chain was subscribed to
ChainChanged(e) ==
  /\ Quiescent
  /\ op.ins.op = "set"
  /\ Changed
  /\ e \in op.active
  /\ Chain(e) \cap op.subs # {}

\* C21: when the user changes a location that the getter of a computed value
\* is subscribed to, every live plain effect whose body reads that computed
\* value, directly or through another computed value, has been run or has had
\* its scheduler called when the write returns
C21_ChainInvalidates ==
  \A e \in PlainEffects : ChainChanged(e) => Invalidated(e)

\* the same for the effects without a scheduler, which re-run at every change
\* and so re-subscribe to what the getters read now
C21_UnscheduledChainInvalidates ==
  \A e \in PlainEffects :
    (ChainChanged(e) /\ Scheduler(scn, e) = "none") => Invalidated(e)

\* an effect that reads c2, whose getter reads c1, re-ran when the user
\* changed the key that the getter of c1 started to read after the effect's
\* first run
C21_Witness ==
  /\ scn = "chain"
  /\ ChainChanged("e2")
  /\ op.ins.k = "a"
  /\ runs["e2"] = 1


\* the body of e is executing
Executing(e) == \E f \in Frames : f.kind = "body" /\ f.eff = e
\* stop(e) was never called: e is active and its onStop was not called (a
\* stop cleans up before it calls onStop and clears active after it)
NeverStopped(e) == Live(e) /\ onStops[e] = "no"
\* the deps e is a member of
Memberships(e) == {l \in Targets \X DepKeys : e \in Dep(l[1], l[2])}
\* the locations the last execution of e read while tracking was not paused;
\* a read of a computed value reads what its getter is subscribed to, a read
\* of a slot that holds a ref reads the ref, and a read of a built-in symbol
\* key is left out
TrackedReads(e) == {<<x[1], x[2]>> : x \in {y \in reads[e] : y[3]}}
\* all locations the last execution of e read
AllReads(e) == {<<x[1], x[2]>> : x \in reads[e]}

C22_ComputedWitness ==
  /\ scn = "computed"
  /\ Quiescent
  /\ NeverStopped("e1")
  /\ NeverStopped("r1")
  /\ Memberships("e1") = {<<"obj", "a">>}
  /\ Memberships("r1") = {<<"obj", "a">>}

\* the body of e calls stop(e)
StopsItself(e) ==
  \E i \in 1..Len(Body(scn, e)) : Body(scn, e)[i] = Stop(e)
\* e is stopped and holds no subscription
HoldsNothing(e) ==
  (effects[e].created /\ ~effects[e].active) =>
    Memberships(e) = {} /\ effects[e].deps = <<>>

\* C23: a stopped effect is a member of no dep and its deps list is empty
C23_StoppedHoldsNothing == \A e \in Effects : HoldsNothing(e)

\* the same for the effects whose body does not stop the effect itself
C23_StoppedFromOutsideHoldsNothing ==
  \A e \in Effects : ~StopsItself(e) => HoldsNothing(e)

\* an effect stopped by the user, that was subscribed, holds nothing
C23_Witness ==
  /\ Quiescent
  /\ op.ins.op = "stop"
  /\ op.ins.e \in op.active
  /\ ~effects[op.ins.e].active
  /\ \E l \in Targets \X DepKeys : <<l[1], l[2], TRUE>> \in reads[op.ins.e]
  /\ Memberships(op.ins.e) = {}

\* no dep occurs twice in the list
Once(deps) == \A i, j \in 1..Len(deps) : deps[i] = deps[j] => i = j

\* C24: in every state, between the engine's operations, an effect is a
\* member of a dep if and only if the dep occurs in its deps list, and no dep
\* occurs there twice
C24_Bidirectional ==
  \A e \in Effects :
    Range(effects[e].deps) = Memberships(e) /\ Once(effects[e].deps)

\* an effect that read two computed values with a dep in common holds that
\* dep once, after a re-run that cleaned up and subscribed again
C24_Witness ==
  /\ scn = "chain"
  /\ Quiescent
  /\ Live("e2")
  /\ runs["e2"] = 1
  /\ Range(effects["r1"].deps) \cap Range(effects["r2"].deps) # {}
  /\ Len(effects["e2"].deps) = 2

\* a stop emptied both sides
C24_StopWitness ==
  /\ Quiescent
  /\ op.ins.op = "stop"
  /\ op.ins.e \in op.active
  /\ \E l \in Targets \X DepKeys : <<l[1], l[2], TRUE>> \in reads[op.ins.e]
  /\ effects[op.ins.e].deps = <<>>

\* the next step is a read made by the body of a stopped effect that was
\* invoked through its handle
StoppedBodyReads ==
  /\ AtBody
  /\ Top(ctl).eff \in Effects
  /\ ~Top(ctl).tracked
  /\ \E ins \in Fetch : ins.op \in {"get", "has", "ownKeys"}
\* the next step is a call of the handle of a stopped effect
StoppedCall ==
  \E ins \in Fetch :
    /\ Quiescent => op'.ins = ins
    /\ ins.op \in {"call", "tryCall"}
    /\ effects[ins.e].created
    /\ ~effects[ins.e].active
\* no effect gains or loses a subscription in the step
SameSubscriptions == targetMap' = targetMap /\ effects' = effects

\* C25: the call of the handle of a stopped effect pushes nothing on the
\* effect stack and executes the body, and a read made by that body
\* subscribes no effect, from whatever code the handle was called
C25_StoppedRunTracksNothing ==
  [][/\ StoppedCall =>
         /\ activeReactiveEffectStack' = activeReactiveEffectStack
         /\ SameSubscriptions
     /\ StoppedBodyReads => SameSubscriptions]_vars

\* the same when the handle is called by the user, with no effect running
C25_StoppedRunByUserTracksNothing ==
  [][/\ StoppedCall =>
         /\ activeReactiveEffectStack' = activeReactiveEffectStack
         /\ SameSubscriptions
     /\ (StoppedBodyReads /\ activeReactiveEffectStack = <<>>) =>
         SameSubscriptions]_vars

\* the body of a stopped effect, called by the user, has read a key
C25_Witness ==
  /\ Len(ctl) = 1
  /\ Top(ctl).kind = "body"
  /\ ~Top(ctl).tracked
  /\ Top(ctl).eff \in Effects
  /\ Top(ctl).pc > 1
  /\ Body(scn, Top(ctl).eff)[1].op = "get"
  /\ activeReactiveEffectStack = <<>>

\* the trigger call made by the user's write or delete is in progress
UserPass ==
  ctl # <<>> /\ ctl[1].kind = "trig" /\ op.ins.op \in {"set", "delete"}
\* the runners of that call: the ones it has invoked and the ones it will
Collected == ctl[1].done \o ctl[1].queue
\* the members, when the user's operation started, of the deps the call
\* consults
SubscribedAtCall ==
  IF WroteThroughRef
  THEN op.ref
  ELSE op.subs \cup (IF ctl[1].typ \in {"add", "delete"} THEN ShapeSubscribers ELSE {})

\* C26: throughout a trigger call the runners it invokes are the members the
\* consulted deps had when the call was made, each once, whatever the
\* invoked effects do to the deps
C26_RunnersFixedAtCall ==
  UserPass => Range(Collected) = SubscribedAtCall /\ Once(Collected)

\* the user's write to a is over but for the return of trigger(): an effect
\* that subscribed to a during the call was not invoked by it
C26_Witness ==
  /\ scn = "pass"
  /\ UserPass
  /\ Len(ctl) = 1
  /\ ctl[1].queue = <<>>
  /\ op.ins.k = "a"
  /\ "e1" \in op.active
  /\ "e1" \in Dep("obj", "a")
  /\ "e1" \notin op.subs
  /\ "e1" \notin Range(Collected)

\* an effect that writes the key it reads deleted and added itself to the dep
\* in its run and was invoked once
C26_SelfWitness ==
  /\ scn = "self"
  /\ UserPass
  /\ Len(ctl) = 1
  /\ ctl[1].queue = <<>>
  /\ "e1" \in Range(ctl[1].done)
  /\ "e1" \in Dep("obj", "a")
  /\ runs["e1"] = 1

\* an effect that an earlier effect of the call made unsubscribe was invoked
\* by the call all the same
C26_UnsubscribedWitness ==
  /\ scn = "pass"
  /\ UserPass
  /\ Len(ctl) = 1
  /\ ctl[1].queue = <<>>
  /\ op.ins.k = "a"
  /\ "e1" \in op.subs
  /\ "e1" \notin Dep("obj", "a")
  /\ "e1" \in Range(ctl[1].done)
  /\ runs["e1"] = 2

\* a call failed because the call stack is full
Overflow == thrown /\ Len(ctl) >= MaxDepth
\* the user operation in progress is a write, a delete, the call of an
\* effect or the creation of one
Cascade == op.ins.op \in {"set", "delete", "call", "effect"}
\* the bodies of e that are executing
Executions(e) ==
  {i \in 1..Len(ctl) : ctl[i].kind = "body" /\ ctl[i].eff = e}

\* C27: the cascade of triggers started by a write, a delete or the call of
\* an effect never fills the call stack: it ends after finitely many
\* executions of effect bodies
C27_CascadeEnds == Cascade => ~Overflow

\* the same while no effect is stopped: the body of an active effect is on
\* the call stack at most once, which bounds the depth of the cascade by the
\* number of effects
C27_LiveCascadeEnds ==
  \A e \in Effects :
    NeverStopped(e) =>
      /\ Cardinality(Executions(e)) <= 1
      /\ (Cascade /\ \A x \in Effects : effects[x].created => NeverStopped(x))
           => ~Overflow

\* two effects that write what the other reads: the cascade of the user's
\* write ran both and ended
C27_Witness ==
  /\ scn = "loop"
  /\ Quiescent
  /\ ~thrown
  /\ op.ins.op = "set"
  /\ runs["e1"] >= 1
  /\ runs["e2"] >= 1
  /\ NeverStopped("e1")
  /\ NeverStopped("e2")

Stopped(e) == effects[e].created /\ ~effects[e].active
\* the deps e is a member of after the step
MembershipsAfter(e) ==
  {l \in Targets \X DepKeys : e \in Range(targetMap'[l[1]].dep[l[2]])}
\* a stopped effect stays stopped in the step
StaysStopped(e) == Stopped(e) => ~effects'[e].active
\* a stopped effect gains no subscription in the step
GainsNothing(e) == Stopped(e) => MembershipsAfter(e) \subseteq Memberships(e)

\* C28: an effect that is not active is not active after any step, and no
\* step makes it a member of a dep
C28_StopIrreversible ==
  [][\A e \in Effects : StaysStopped(e) /\ GainsNothing(e)]_vars

\* the same, the second half for a stopped effect that is not on the effect
\* stack
C28_StopIrreversibleOffStack ==
  [][\A e \in Effects :
       /\ StaysStopped(e)
       /\ e \notin Range(activeReactiveEffectStack) => GainsNothing(e)]_vars

\* a stopped effect, member of no dep, was triggered by nothing and called
\* by the user: its body ran and it is still stopped, member of no dep
C28_Witness ==
  \E e \in PlainEffects :
    /\ Quiescent
    /\ op.ins = Call(e)
    /\ e \notin op.active
    /\ runs[e] = 1
    /\ Stopped(e)
    /\ Memberships(e) = {}

\* the (target, key) entries of the dependency store
Entries == {l \in Targets \X DepKeys : l[2] \in Range(targetMap[l[1]].keys)}
EntriesAfter == {l \in Targets \X DepKeys : l[2] \in Range(targetMap'[l[1]].keys)}
\* the targets that have a depsMap
Tracked == {t \in Targets : targetMap[t].has}
TrackedAfter == {t \in Targets : targetMap'[t].has}

\* C29: no step removes an entry of the dependency store or the depsMap of a
\* target, and only a read made while an effect is on the effect stack and
\* tracking is not paused adds one
C29_StoreOnlyGrows ==
  [][/\ Entries \subseteq EntriesAfter
     /\ Tracked \subseteq TrackedAfter
     /\ (EntriesAfter # Entries \/ TrackedAfter # Tracked) =>
          (Reading /\ shouldTrack /\ activeReactiveEffectStack # <<>>)]_vars

\* the user stopped an effect: the entry of a location it had read is still
\* there, its dep is empty
C29_Witness ==
  \E k \in DepKeys :
    /\ Quiescent
    /\ op.ins.op = "stop"
    /\ op.ins.e \in op.active
    /\ <<"obj", k, TRUE>> \in reads[op.ins.e]
    /\ <<"obj", k>> \in Entries
    /\ Dep("obj", k) = {}

\* seq without the later occurrences of its elements
RECURSIVE Dedup(_)
Dedup(seq) ==
  IF seq = <<>>
  THEN <<>>
  ELSE LET r == Dedup(Pop(seq))
       IN  IF Top(seq) \in Range(r) THEN r ELSE Append(r, Top(seq))
\* the plain effects of seq, in its order
Plain(seq) == SelectSeq(seq, LAMBDA e : ~IsComputed(scn, e))
\* the instruction the step executes
Stepped == IF Quiescent THEN op'.ins ELSE CHOOSE ins \in Fetch : TRUE
\* the step calls trigger() and trigger() finds runners to invoke
CallsTrigger ==
  /\ Len(ctl') = Len(ctl) + 1
  /\ Top(ctl').kind = "trig"
  /\ Top(ctl').typ # "clear"
\* the members of the deps trigger() consults for the step, in insertion
\* order: the dep of the key, then for ADD and DELETE the dep of the
\* iteration key
InsertionOrder ==
  LET depsMap == targetMap[Stepped.t]
      iterationKey == IF IsArray(Stepped.t) THEN "length" ELSE ITERATE_KEY
      stored == store[Stepped.t][Stepped.k]
  IN  IF Stepped.op \in {"set", "setAcc", "setInc"} /\ isRef(stored)
           /\ ~isRef(Operand(Stepped))
      THEN targetMap[RefObject(stored)].dep[RefKey]
      ELSE Dedup(depsMap.dep[Stepped.k] \o
                   (IF Top(ctl').typ \in {"add", "delete"}
                    THEN depsMap.dep[iterationKey]
                    ELSE <<>>))
\* the trigger call at the bottom of the call stack goes on
PassGoesOn ==
  /\ ctl # <<>>
  /\ ctl[1].kind = "trig"
  /\ ctl' # <<>>
\* ... with the same runners in the same order, invoking the next of them
NextInOrder ==
  /\ ctl'[1].kind = "trig"
  /\ ctl'[1].done \o ctl'[1].queue = ctl[1].done \o ctl[1].queue
  /\ Len(ctl'[1].done) \in {Len(ctl[1].done), Len(ctl[1].done) + 1}

\* C30: a trigger call invokes the plain effects in the insertion order of
\* the deps it consults, the dep of the written key before the dep of the
\* iteration key, and keeps that order whatever the invoked effects do
C30_InsertionOrder ==
  [][/\ CallsTrigger => Plain(Top(ctl').queue) = Plain(InsertionOrder)
     /\ PassGoesOn => NextInOrder]_vars

\* the user deleted a key: the effects subscribed to the key are invoked
\* before the one subscribed to the iteration key only
C30_Witness ==
  /\ scn = "basic"
  /\ UserPass
  /\ ctl[1].typ = "delete"
  /\ Len(Collected) = 3
  /\ Collected[3] \in op.iter \ op.subs
  /\ {Collected[1], Collected[2]} = op.subs

\* the first effect of a trigger call has re-run: it is now behind the second
\* one in the dep, where the next trigger call will find it
C30_ResubscribedWitness ==
  /\ UserPass
  /\ op.ins.k = "a"
  /\ Len(ctl) = 1
  /\ ctl[1].done = <<"e1">>
  /\ ctl[1].queue = <<"e2">>
  /\ targetMap["obj"].dep["a"] = <<"e2", "e1">>

\* the step is a delete through a proxy that reaches deleteProperty (the user
\* makes all of them: no body deletes)
Removes ==
  /\ Quiescent
  /\ \/ op'.ins.op = "delete"
     \/ op'.ins.op = "readonlyDelete" /\ ~LOCKED
\* the delete being made, or in progress, or made last
Removing == op.ins.op = "delete" \/ (op.ins.op = "readonlyDelete" /\ ctl # <<>>)
\* the step calls trigger() with DELETE for a target that has a depsMap
DeleteTriggered ==
  /\ Len(ctl') = 1
  /\ ctl'[1].kind = "trig"
  /\ ctl'[1].typ = "delete"
\* the step runs nothing and changes neither the raw targets nor the store
TriggersNothing ==
  /\ ctl' = <<>>
  /\ \A e \in Effects : runs'[e] = 0
  /\ scheduled' = <<>>
  /\ <<store, targetMap, effects, computeds>>' = <<store, targetMap, effects, computeds>>
\* what a delete step does: it calls trigger with DELETE exactly if the key
\* was an own key and Reflect.deleteProperty succeeded, the key is gone when
\* it does, and the runners are the subscribers of the key and of the shape
DeleteStep ==
  LET t == op'.ins.t
      k == op'.ins.k
      succeeds == hasOwn(Cur, t, k) /\ ReflectDeleteProperty(t, k)
  IN  /\ targetMap[t].has => (DeleteTriggered <=> succeeds)
      /\ ~targetMap[t].has => ctl' = <<>>
      /\ ~succeeds => TriggersNothing
      /\ DeleteTriggered =>
           /\ store'[t][k] = Absent
           /\ Range(ctl'[1].queue) =
                Range(targetMap[t].dep[k]) \cup
                  Range(targetMap[t].dep[IF IsArray(t) THEN "length" ELSE ITERATE_KEY])
\* an effect invoked by the trigger call of the user's delete starts its body
StartsInDeletePass ==
  /\ Removing
  /\ Len(ctl) = 2
  /\ ctl[1].kind = "trig"
  /\ ctl[1].typ = "delete"
  /\ ctl[2].kind = "body"
  /\ ctl[2].pc = 1
\* no body that writes a key has executed since the user operation started
NothingWrittenSince == \A e \in Effects : runs[e] > 0 => ReadOnly(e)
KeyAbsent == store[op.ins.t][op.ins.k] = Absent

C31_MissingKeyWitness ==
  /\ Quiescent
  /\ op.ins.op = "delete"
  /\ op.ins.k \in Keys
  /\ ~op.had
  /\ op.subs \cap op.active # {}
  /\ \A e \in Effects : runs[e] = 0

\* the user deleted the length of an array, which an effect had read: the
\* deletion failed and nothing ran
C31_FailedWitness ==
  /\ Quiescent
  /\ op.ins = Delete("length")
  /\ op.len \cap op.active # {}
  /\ \A e \in Effects : runs[e] = 0

\* the step is a write through the mutable proxy, by the user or by a body
Writes ==
  /\ Quiescent \/ AtBody
  /\ Stepped.op \in {"set", "setAcc", "setInc"}
\* the subscribers of the ref
RefSubscribers == Range(targetMap["ref"].dep[RefKey])
\* the step calls trigger() for the ref and for nothing else
TriggersRefOnly ==
  IF targetMap["ref"].has
  THEN /\ Len(ctl') = Len(ctl) + 1
       /\ Top(ctl').kind = "trig"
       /\ Top(ctl').typ = "set"
       /\ Range(Top(ctl').queue) = RefSubscribers
  ELSE Len(ctl') = Len(ctl)
\* what a write step does to the raw targets
WriteStep ==
  LET t == Stepped.t
      k == Stepped.k
      V == Operand(Stepped)
      stored == store[t][k]
  IN  IF isRef(stored) /\ ~isRef(V)
      THEN /\ store'[RefObject(stored)][RefKey] = V
           /\ store'[t] = store[t]
           /\ TriggersRefOnly
      ELSE store'[t][k] = V

\* C32: a write of a value that is not a ref to a key whose slot holds a ref
\* assigns the value to the ref, leaves the slot holding the ref and calls
\* trigger only for the ref, so that an effect subscribed to the key and not
\* to the ref does not run; every other write stores the value in the slot
C32_WriteThroughRef ==
  /\ [][Writes => WriteStep]_vars
  /\ []((Quiescent /\ WroteThroughRef) =>
          \A R \in op.subs \ op.ref : runs[R] = 0)

\* the user wrote 1 to the key a, which holds a ref: the ref holds 1, the slot
\* still holds the ref, the effect that had read the ref through the key ran
\* and the one subscribed to the key by a has did not
C32_Witness ==
  /\ Quiescent
  /\ op.ins = SetTo("a", 1)
  /\ WroteThroughRef
  /\ store["obj"]["a"] = Ref
  /\ store["ref"][RefKey] = 1
  /\ "e2" \in op.subs \cap op.active
  /\ "e1" \in op.ref
  /\ runs["e1"] = 1
  /\ runs["e2"] = 0

\* the user wrote the ref to the key b, which held a number: the ref
\* replaced it and the subscriber of b ran
C32_ReplacedWitness ==
  /\ Quiescent
  /\ op.ins = SetTo("b", Ref)
  /\ op.old = 0
  /\ store["obj"]["b"] = Ref
  /\ "e2" \in op.subs \cap op.active
  /\ runs["e2"] = 1

\* the effect a read made now is tracked for
Tracker ==
  IF shouldTrack /\ activeReactiveEffectStack # <<>>
  THEN {Top(activeReactiveEffectStack)}
  ELSE {}
\* the body on top makes the read kind
Steps(kind) == AtBody /\ Stepped.op = kind
\* the deps of all locations but l are what they were
OnlyDepOf(l) ==
  \A x \in (Targets \X DepKeys) \ {l} :
    targetMap'[x[1]].dep[x[2]] = targetMap[x[1]].dep[x[2]]
\* the step subscribes the tracked effect to l and changes no other dep
TracksOnly(l) ==
  /\ Tracker \subseteq Range(targetMap'[l[1]].dep[l[2]])
  /\ OnlyDepOf(l)
\* the body of e reads a built-in symbol key and nothing else
ReadsSymbolOnly(e) ==
  /\ Body(scn, e) # <<>>
  /\ \A i \in 1..Len(Body(scn, e)) :
       Body(scn, e)[i].op = "get" /\ Body(scn, e)[i].k \in builtInSymbols

\* C33: a get of a built-in symbol key changes neither the dependency store
\* nor the deps of an effect, so an effect that reads only such keys is a
\* member of no dep and is not run by a write or delete of the user; a has
\* subscribes the tracked effect to its key whatever it returns, and an
\* ownKeys subscribes it to the iteration key and changes no other dep
C33_ReadsTracked ==
  /\ [][/\ (Steps("get") /\ Stepped.k \in builtInSymbols) =>
            (targetMap' = targetMap /\ effects' = effects)
        /\ Steps("has") => TracksOnly(<<Stepped.t, Stepped.k>>)
        /\ Steps("ownKeys") => TracksOnly(<<Stepped.t, ITERATE_KEY>>)]_vars
  /\ [](\A e \in Effects :
          ReadsSymbolOnly(e) =>
            /\ Memberships(e) = {}
            /\ (op.ins.op \in {"set", "delete"}) => runs[e] = 0)

\* the user added the built-in symbol key: the effect that had read it by a
\* get did not run, the one that had asked for it by a has (and got false)
\* and the one that had enumerated the keys ran; the first is a member of no
\* dep, the others of the dep of the key and of the iteration key only
C33_Witness ==
  /\ Quiescent
  /\ op.ins = SetTo(SymbolKey, 1)
  /\ ~op.had
  /\ {"e1", "e2", "e3"} \subseteq op.active
  /\ <<"obj", SymbolKey, FALSE>> \in reads["e1"]
  /\ runs["e1"] = 0
  /\ Memberships("e1") = {}
  /\ op.subs = {"e2"}
  /\ runs["e2"] = 1
  /\ Memberships("e2") = {<<"obj", SymbolKey>>}
  /\ op.iter = {"e3"}
  /\ runs["e3"] = 1
  /\ Memberships("e3") = {<<"obj", ITERATE_KEY>>}

\* a has that returns true and one that returns false have subscribed their
\* effects
C33_HasWitness ==
  /\ AtBody
  /\ Top(ctl).pc = 2
  /\ Body(scn, Top(ctl).eff)[1].op = "has"
  /\ Top(ctl).acc = 0
  /\ Top(ctl).eff \in Dep("obj", Body(scn, Top(ctl).eff)[1].k)

\* the effects run() pushed and has not popped yet: the bodies in progress
\* that were called by run() for an active effect, outermost first
RECURSIVE Pushed(_)
Pushed(stack) ==
  IF stack = <<>>
  THEN <<>>
  ELSE IF Top(stack).kind = "body" /\ Top(stack).tracked
  THEN Append(Pushed(Pop(stack)), Top(stack).eff)
  ELSE Pushed(Pop(stack))
CreatedEffects == {e \in Effects : effects[e].created}

\* C34: the effect stack holds no effect twice and at most as many effects as
\* were created; it holds exactly the effects whose run() has pushed them
\* and whose body has not returned or thrown yet, in the order of the calls,
\* and is empty when no body is executing
C34_StackDiscipline ==
  /\ Cardinality(Range(activeReactiveEffectStack)) = Len(activeReactiveEffectStack)
  /\ Len(activeReactiveEffectStack) <= Cardinality(CreatedEffects)
  /\ activeReactiveEffectStack = Pushed(ctl)
  /\ (\A e \in Effects : ~Executing(e)) => activeReactiveEffectStack = <<>>

\* every created effect is on the effect stack, and the innermost one has
\* just been triggered again by its own write and was not pushed again
C34_Witness ==
  /\ Cardinality(CreatedEffects) = 2
  /\ Len(activeReactiveEffectStack) = 2
  /\ Len(ctl) = 4
  /\ Top(ctl).kind = "trig"
  /\ Top(ctl).done = <<Top(activeReactiveEffectStack)>>
  /\ runs[Top(activeReactiveEffectStack)] = 1

\* an exception has unwound two nested bodies: both effects were popped
C34_ThrowWitness ==
  /\ scn = "throw"
  /\ Quiescent
  /\ thrown
  /\ runs["e1"] > 0
  /\ activeReactiveEffectStack = <<>>

\* what a write of a ref does to the computed value
CRefWriteStep ==
  /\ cref'.triggers <= 1
  /\ cref'.triggers = 1 <=> (~cref.dirty /\ cref'.changed)
  /\ cref.dirty =>
       /\ cref'.dirty
       /\ cref'.triggers = 0
       /\ cref'.getterRuns = 0
       /\ cref'.value = cref.value
       /\ cref'.queue = cref.queue

\* C35: a write of a ref calls triggerRefValue exactly if it changed a ref the
\* getter is subscribed to while dirty was false; while dirty is true a write
\* notifies nobody, runs no getter and leaves dirty true; between two reads
\* of the computed value triggerRefValue is called at most once
C35_NotifiesOnceUntilRead ==
  /\ [][cref'.last = "write" => CRefWriteStep]_vars
  /\ [](cref.notified <= 1)

\* the value is dirty and its subscriber with a scheduler is queued, after
\* one notification; the user's last write changed a ref the getter is
\* subscribed to once more and notified nobody
C35_Witness ==
  /\ cref.last = "write"
  /\ cref.changed
  /\ cref.dirty
  /\ cref.triggers = 0
  /\ cref.getterRuns = 0
  /\ cref.notified = 1
  /\ cref.queue = {"w2"}

\* the write made dirty true and notified: the plain subscriber ran and read
\* the value, which ran the getter and made dirty false again
C35_RecomputeWitness ==
  /\ cref.last = "write"
  /\ cref.triggers = 1
  /\ cref.getterRuns = 1
  /\ ~cref.dirty
  /\ "w1" \in cref.dep

\* the positions of the IF nodes among the children
IfNodes == {p \in 1..Len(vif.children) : vif.children[p].kind = "IF"}
\* the number of branches of the IF nodes before position p
BranchesBefore(p) ==
  LET before == {q \in IfNodes : q < p}
      count[S \in SUBSET before] ==
        IF S = {}
        THEN 0
        ELSE LET q == CHOOSE x \in S : TRUE
             IN  Len(vif.children[q].branches) + count[S \ {q}]
  IN  count[before]
\* the children that became branches
Branches == {id \in 1..Len(vif.keys) : vif.keys[id] # -1}

\* C36: the key indices given to the branches of the IF nodes of one parent
\* are pairwise distinct: the first branch of an IF node has the number of
\* branches of the IF nodes before it, its n-th following branch that plus n
C36_DistinctBranchKeys ==
  /\ \A a, b \in Branches : a # b => vif.keys[a] # vif.keys[b]
  /\ \A p \in IfNodes :
       \A n \in 1..Len(vif.children[p].branches) :
         vif.keys[vif.children[p].branches[n]] = BranchesBefore(p) + (n - 1)

\* <if/><else-if/><else/> followed by a second v-if: the traversal is over,
\* the branches have the keys 0, 1, 2 and 3
C36_Witness ==
  /\ ~Traversing
  /\ Len(vif.children) = 2
  /\ vif.children[1].branches = <<1, 2, 3>>
  /\ vif.children[2].branches = <<4>>
  /\ vif.keys = <<0, 1, 2, 3>>
  /\ vif.errors = {}

\* a v-else after white space is the second branch of the second IF node
C36_BlankWitness ==
  /\ ~Traversing
  /\ Len(vif.children) = 2
  /\ vif.children[1].branches = <<1>>
  /\ vif.children[2].branches = <<2, 4>>
  /\ vif.keys = <<0, 1, -1, 2>>

====
